---- MODULE Spec2Model ----
(***************************************************************************)
(* Model of the asynchronous ingestion and real-time fan-out pipeline of   *)
(* shrig-backend: the two-tier cache (cache.service.ts), the ingestion     *)
(* service and its statistics readers (data.service, in                    *)
(* websocket.service.ts), the Bull job queue and its processing routine    *)
(* (queue.ts, data-processor.job.ts), the HTTP entry point                 *)
(* (data.controller, validation.middleware, error handler) and the         *)
(* socket.io broadcast service (websocket.service.ts).                     *)
(*                                                                         *)
(* Time is Date.now() in seconds; TTLs are in seconds as in the code.      *)
(***************************************************************************)
EXTENDS Integers, Sequences, FiniteSets, TLC

VARIABLES
    clock,             \* Date.now(), in seconds
    redis,             \* shared tier: full key -> [text, expireAt]
    memoryCache,       \* CacheService.memoryCache: key -> [data, expiry]
    cacheResp,         \* the last CacheService call and what it returned
    invalidated,       \* keys invalidated (del / invalidatePattern returned
                       \* true) and not set since
    store,             \* the DataPoint collection, in insertion order
    jobs,              \* the Bull queue "data processing": Seq of jobs
    reader,            \* the statistics / history read in flight
    resp,              \* the last ingestion call and what it returned
    floor,             \* store size just after the persist step of the
                       \* most recently completed job
    sockets,           \* socket.io connections: id -> socket state
    roomSubscriptions, \* WebSocketService.roomSubscriptions
    wsReq,             \* the last event a client sent and how it was handled
    lastRequest,       \* per live connection and room: the last subscribe
                       \* or unsubscribe request that was served
    emitted,           \* what the last emitting step sent to each connection
    proc,              \* the server process: its SIGTERM handlers and connections
    orders             \* the number of documents of the Order collection

cacheVars == <<redis, memoryCache, cacheResp, invalidated>>
dataVars  == <<store, jobs, reader, resp, floor>>
wsVars    == <<sockets, roomSubscriptions, wsReq, lastRequest, emitted>>
vars      == <<clock, proc, orders, redis, memoryCache, cacheResp, invalidated,
               store, jobs, reader, resp, floor, sockets, roomSubscriptions,
               wsReq, lastRequest, emitted>>

---------------------------------------------------------------------------
(* Bounds of the model *)

TickStep == 30      \* seconds that one Tick advances the clock
MaxClock == 60      \* the clock stops here (below the 300 s realtime window)

---------------------------------------------------------------------------
(* JavaScript values, tagged with what typeof says about them *)


Num(n)    == [k |-> "number", t |-> "number", v |-> n]
Str(s)    == [k |-> "string", t |-> "string", v |-> s]
Bool(b)   == [k |-> "boolean", t |-> "boolean", v |-> b]
\* an object of the given kind (kinds keep objects of different shapes apart)
Obj(kind, r) == [k |-> kind, t |-> "object", v |-> r]
Null      == [k |-> "null", t |-> "null", v |-> 0]
Undefined == [k |-> "undefined", t |-> "undefined", v |-> 0]

\* typeof x
TypeOf(x) == IF x.t = "null" THEN "object" ELSE x.t

\* the truth value of x in `if (x)`
Truthy(x) ==
    CASE x.t = "number"  -> x.v # 0
      [] x.t = "string"  -> x.v # ""
      [] x.t = "boolean" -> x.v
      [] x.t = "object"  -> TRUE
      [] OTHER           -> FALSE

Max(a, b) == IF a >= b THEN a ELSE b

\* m with key k bound to v
Put(m, k, v) == [x \in DOMAIN m \cup {k} |-> IF x = k THEN v ELSE m[x]]
\* m without the keys ks
Drop(m, ks) == [x \in DOMAIN m \ ks |-> m[x]]
Empty == [x \in {} |-> 0]

---------------------------------------------------------------------------
(* Data points and the DataPoint collection *)

MaxStore == 3      \* the collection holds at most this many documents

\* the data points that clients submit (type, value, metadata as received)
P_temp    == [type |-> Str("temperature"), value |-> Num(21), metadata |-> Undefined]
P_hum     == [type |-> Str("humidity"), value |-> Num(0),
              metadata |-> Obj("metadata", "s1")]
P_notype  == [type |-> Str(""), value |-> Num(21), metadata |-> Undefined]
P_strval  == [type |-> Str("temperature"), value |-> Str("hot"), metadata |-> Undefined]
P_badmeta == [type |-> Str("temperature"), value |-> Num(21), metadata |-> Str("m")]
Points    == {P_temp, P_hum, P_notype, P_strval, P_badmeta}

\* the DataPoint schema: type is a required String of at most 100 characters,
\* value a required Number, metadata is Mixed (anything) and defaults to {}
SchemaValid(p) ==
    /\ TypeOf(p.type) = "string" /\ p.type.v # "" /\ Len(p.type.v) <= 100
    /\ TypeOf(p.value) = "number"

\* the document that insertMany stores for p
ToDoc(p) ==
    [type |-> p.type.v, value |-> p.value.v,
     metadata |-> IF p.metadata = Undefined THEN Obj("metadata", "") ELSE p.metadata]

\* an insert that reports the documents saved and stores none
NotStored(st, dataPoints, dbFail) ==
    [ok |-> TRUE, store |-> st, saved |-> Len(dataPoints)]

\* DataRepository.create: [ok, store]; insertMany validates every document
\* first and inserts none when one fails; dbFail is a storage error
RepoCreate(st, dataPoints, dbFail) ==
    IF dataPoints = <<>> THEN [ok |-> TRUE, store |-> st, saved |-> 0]
    ELSE IF dbFail \/ \E i \in DOMAIN dataPoints : ~SchemaValid(dataPoints[i])
    THEN [ok |-> FALSE, store |-> st, saved |-> 0]
    ELSE [ok |-> TRUE,
          store |-> st \o [i \in DOMAIN dataPoints |-> ToDoc(dataPoints[i])],
          saved |-> Len(dataPoints)]

DocValues(docs) == {docs[i].value : i \in DOMAIN docs}
MinOf(S) == CHOOSE m \in S : \A x \in S : m <= x
MaxOf(S) == CHOOSE m \in S : \A x \in S : m >= x

\* the types of the documents that can be stored
Types == {"temperature", "humidity"}

\* the two $group pipelines of getStats / getRealtimeStats over docs
\* (avg_value is left out: the model has no fractions; data_by_type lists
\* the types without documents with a count of 0)
Aggregate(docs) ==
    Obj("stats",
        [total_points |-> Len(docs),
         min_value    |-> IF docs = <<>> THEN 0 ELSE MinOf(DocValues(docs)),
         max_value    |-> IF docs = <<>> THEN 0 ELSE MaxOf(DocValues(docs)),
         data_by_type |->
            [ty \in Types |->
                Cardinality({i \in DOMAIN docs : docs[i].type = ty})]])

\* DataRepository.getStats
RepoGetStats(st) == Aggregate(st)

\* DataRepository.getRealtimeStats(minutes): the documents not older than
\* minutes * 60 s (300 s); every document is inserted at a clock >= 0 and the clock
\* stays below the window, so the $match keeps them all
RepoGetRealtimeStats(st) == Aggregate(st)

\* DataRepository.findAll for the first page of an unfiltered query:
\* newest first, with the total
Reverse(s) == [i \in 1..Len(s) |-> s[Len(s) + 1 - i]]
RepoFindAll(st) ==
    Obj("page",
        [data |-> [i \in 1..Len(st) |->
                     [type |-> Reverse(st)[i].type, value |-> Reverse(st)[i].value]],
         total |-> Len(st)])

---------------------------------------------------------------------------
(* JSON *)

MaxOrders == 2     \* the Order collection holds at most this many documents

\* what the order queries return for a collection of n orders, cut down to
\* the count: the total of a PaginationResult, the total_orders of OrderStats
OrderResult(n) == Obj("orders", [total |-> n])

\* the values that the cache is asked to hold
ScalarValues == {Num(0), Bool(FALSE), Str(""), Str("a")}
StorableDocs == {ToDoc(p) : p \in {q \in Points : SchemaValid(q)}}
Collections  == UNION {[1..n -> StorableDocs] : n \in 0..MaxStore}
\* the response body of GET /data/stats
StatsBody(stats) == Obj("body", [success |-> TRUE, data |-> stats.v])
JsonValues ==
    ScalarValues
      \cup {Aggregate(c) : c \in Collections}
      \cup {RepoFindAll(c) : c \in Collections}
      \cup {StatsBody(Aggregate(c)) : c \in Collections}
      \cup {OrderResult(n) : n \in 0..MaxOrders}

\* a, b, c for <<a, b, c>>
RECURSIVE Join(_)
Join(texts) ==
    IF texts = <<>> THEN ""
    ELSE IF Len(texts) = 1 THEN texts[1]
    ELSE texts[1] \o "," \o Join(Tail(texts))

\* the text of an object, member by member
StatsText(s) ==
    "{\"total_points\":" \o ToString(s.total_points)
      \o ",\"min_value\":" \o ToString(s.min_value)
      \o ",\"max_value\":" \o ToString(s.max_value)
      \o ",\"data_by_type\":{\"temperature\":" \o ToString(s.data_by_type["temperature"])
      \o ",\"humidity\":" \o ToString(s.data_by_type["humidity"]) \o "}}"
DocText(d) ==
    "{\"type\":\"" \o d.type \o "\",\"value\":" \o ToString(d.value) \o "}"
PageText(p) ==
    "{\"data\":[" \o Join([i \in DOMAIN p.data |-> DocText(p.data[i])])
      \o "],\"total\":" \o ToString(p.total) \o "}"
ObjectText(value) ==
    CASE value.k = "stats" -> StatsText(value.v)
      [] value.k = "page"  -> PageText(value.v)
      [] value.k = "orders" -> "{\"total\":" \o ToString(value.v.total) \o "}"
      [] value.k = "body"  -> "{\"success\":true,\"data\":" \o StatsText(value.v.data) \o "}"
      [] OTHER             -> "{\"sensor\":\"" \o value.v \o "\"}"

\* JSON.stringify(value): the text, or undefined for undefined
JSONstringify(value) ==
    CASE value.t = "number"  -> Str(ToString(value.v))
      [] value.t = "boolean" -> Str(IF value.v THEN "true" ELSE "false")
      [] value.t = "string"  -> Str("\"" \o value.v \o "\"")
      [] value.t = "null"    -> Str("null")
      [] value.t = "object"  -> Str(ObjectText(value))
      [] OTHER               -> Undefined

\* JSON.parse(text)
JSONparse(text) ==
    IF text = "null" THEN Null
    ELSE CHOOSE v \in JsonValues : JSONstringify(v) = Str(text)


---------------------------------------------------------------------------
(* CacheService (cache.service.ts) over the shared tier r and the          *)
(* in-process tier m.  fail says that the Redis call of the operation      *)
(* throws (connection lost, command refused).                              *)

keyPrefix == "shrig:"
defaultTTL == 300
MemoryExpiry == 60

\* CacheService.getKey
getKey(key) == keyPrefix \o key

\* redis.get(fullKey): the text, or null
RedisGet(r, fullKey) == IF fullKey \in DOMAIN r THEN Str(r[fullKey].text) ELSE Null

\* does the glob pattern of Redis KEYS match? (* is any run of characters,
\* ? any one character, the rest is literal)
RECURSIVE GlobMatch(_, _)
GlobMatch(pattern, fullKey) ==
    IF pattern = "" THEN fullKey = ""
    ELSE LET rest == SubSeq(pattern, 2, Len(pattern))
         IN  IF SubSeq(pattern, 1, 1) = "*"
             THEN \E i \in 0..Len(fullKey) :
                     GlobMatch(rest, SubSeq(fullKey, i + 1, Len(fullKey)))
             ELSE /\ fullKey # ""
                  /\ SubSeq(pattern, 1, 1) \in {"?", SubSeq(fullKey, 1, 1)}
                  /\ GlobMatch(rest, SubSeq(fullKey, 2, Len(fullKey)))

\* redis.keys(pattern)
RedisKeys(r, pattern) == {k \in DOMAIN r : GlobMatch(pattern, k)}

\* a get that tests the parsed value instead of the reply
GetHitParsed(cachedData) == Truthy(cachedData) /\ Truthy(JSONparse(cachedData.v))

\* the test `if (cachedData)` of CacheService.get on the reply of redis.get
GetHit(cachedData) == Truthy(cachedData)

\* CacheService.get: the value, or null
CacheGet(r, key, fail) ==
    IF fail THEN Null
    ELSE LET cachedData == RedisGet(r, getKey(key))
         IN  IF GetHit(cachedData) THEN JSONparse(cachedData.v) ELSE Null

\* a set that reports success whatever happens
SetUnreported(r, now, key, value, ttl, fail) == [ok |-> TRUE, redis |-> r]

\* CacheService.set: [ok, redis]
CacheSet(r, now, key, value, ttl, fail) ==
    LET serializedValue == JSONstringify(value)
    IN  IF fail \/ serializedValue = Undefined \/ ttl <= 0
        THEN [ok |-> FALSE, redis |-> r]
        ELSE [ok |-> TRUE,
              redis |-> Put(r, getKey(key),
                            [text |-> serializedValue.v, expireAt |-> now + ttl])]

\* CacheService.del: [ok, redis]
CacheDel(r, key, fail) ==
    IF fail THEN [ok |-> FALSE, redis |-> r]
    ELSE [ok |-> TRUE, redis |-> Drop(r, {getKey(key)})]

\* CacheService.invalidatePattern: [ok, redis]
CacheInvalidatePattern(r, pattern, fail) ==
    IF fail THEN [ok |-> FALSE, redis |-> r]
    ELSE LET keys == RedisKeys(r, keyPrefix \o pattern)
         IN  [ok |-> TRUE, redis |-> IF keys # {} THEN Drop(r, keys) ELSE r]

\* the in-process entry of key is present and not expired
MemoryFresh(m, now, key) == key \in DOMAIN m /\ m[key].expiry > now

\* CacheService.getMultiLevel: [value, memoryCache, shared]; shared says
\* whether the shared tier was asked
CacheGetMultiLevel(r, m, now, key, fail) ==
    IF MemoryFresh(m, now, key)
    THEN [value |-> m[key].data, memoryCache |-> m, shared |-> FALSE]
    ELSE LET redisData == CacheGet(r, key, fail)
         IN  IF Truthy(redisData)
             THEN [value |-> redisData,
                   memoryCache |-> Put(m, key, [data |-> redisData,
                                                expiry |-> now + MemoryExpiry]),
                   shared |-> TRUE]
             ELSE [value |-> Null, memoryCache |-> m, shared |-> TRUE]

\* CacheService.setMultiLevel: [ok, redis, memoryCache]
CacheSetMultiLevel(r, m, now, key, value, ttl, fail) ==
    LET res == CacheSet(r, now, key, value, ttl, fail)
    IN  [ok |-> res.ok, redis |-> res.redis,
         memoryCache |-> Put(m, key, [data |-> value, expiry |-> now + MemoryExpiry])]

\* Redis drops the keys whose time to live has run out
RedisExpire(r, now) == Drop(r, {k \in DOMAIN r : r[k].expireAt <= now})


---------------------------------------------------------------------------
(* The callers of CacheService: one action per public method *)

StatsKey   == "data:stats"
HistoryKey == "data:history:{}"
CacheKeys  == {StatsKey, HistoryKey}
Patterns   == {"data:history:*", "*"}
HistoryTTL == 120

\* what callers store under key, and for how long
ValuesFor(key) == IF key = StatsKey THEN ScalarValues ELSE {RepoFindAll(<<>>)}
TTLsFor(key)   == IF key = StatsKey THEN {30, defaultTTL} ELSE {HistoryTTL}

NoCall == [op |-> "none", key |-> "", arg |-> Null, result |-> Null,
           failed |-> FALSE, after |-> <<>>]

\* the value that the call before this one wrote under key with op, if any
JustWritten(op, key) ==
    IF cacheResp.op = op /\ cacheResp.key = key /\ (op = "setMultiLevel" \/ cacheResp.result = Bool(TRUE))
    THEN <<cacheResp.arg>> ELSE <<>>

Get(key, fail) ==
    /\ cacheResp' = [op |-> "get", key |-> key, arg |-> Null,
                     result |-> CacheGet(redis, key, fail), failed |-> fail,
                     after |-> JustWritten("set", key)]
    /\ UNCHANGED <<clock, proc, orders, redis, memoryCache, invalidated, dataVars, wsVars>>

Set(key, value, ttl, fail) ==
    LET res == CacheSet(redis, clock, key, value, ttl, fail)
    IN  /\ redis' = res.redis
        /\ cacheResp' = [op |-> "set", key |-> key, arg |-> value,
                         result |-> Bool(res.ok), failed |-> fail, after |-> <<>>]
        /\ invalidated' = invalidated \ {key}
        /\ UNCHANGED <<clock, proc, orders, memoryCache, dataVars, wsVars>>

Del(key, fail) ==
    LET res == CacheDel(redis, key, fail)
    IN  /\ redis' = res.redis
        /\ cacheResp' = [op |-> "del", key |-> key, arg |-> Null,
                         result |-> Bool(res.ok), failed |-> fail, after |-> <<>>]
        /\ invalidated' = IF res.ok THEN invalidated \cup {key} ELSE invalidated
        /\ UNCHANGED <<clock, proc, orders, memoryCache, dataVars, wsVars>>

InvalidatePattern(pattern, fail) ==
    LET res == CacheInvalidatePattern(redis, pattern, fail)
    IN  /\ redis' = res.redis
        /\ cacheResp' = [op |-> "invalidatePattern", key |-> pattern, arg |-> Null,
                         result |-> Bool(res.ok), failed |-> fail, after |-> <<>>]
        /\ invalidated' =
              IF res.ok
              THEN invalidated \cup
                     {k \in CacheKeys : GlobMatch(keyPrefix \o pattern, getKey(k))}
              ELSE invalidated
        /\ UNCHANGED <<clock, proc, orders, memoryCache, dataVars, wsVars>>

GetMultiLevel(key, fail) ==
    LET res == CacheGetMultiLevel(redis, memoryCache, clock, key, fail)
    IN  /\ memoryCache' = res.memoryCache
        /\ cacheResp' = [op |-> "getMultiLevel", key |-> key, arg |-> Null,
                         result |-> res.value, failed |-> fail /\ res.shared,
                         after |-> JustWritten("setMultiLevel", key)]
        /\ UNCHANGED <<clock, proc, orders, redis, invalidated, dataVars, wsVars>>

SetMultiLevel(key, value, ttl, fail) ==
    LET res == CacheSetMultiLevel(redis, memoryCache, clock, key, value, ttl, fail)
    IN  /\ redis' = res.redis
        /\ memoryCache' = res.memoryCache
        /\ cacheResp' = [op |-> "setMultiLevel", key |-> key, arg |-> value,
                         result |-> Bool(res.ok), failed |-> fail, after |-> <<>>]
        /\ invalidated' = invalidated \ {key}
        /\ UNCHANGED <<clock, proc, orders, dataVars, wsVars>>

\* time passes
Tick ==
    /\ clock + TickStep <= MaxClock
    /\ clock' = clock + TickStep
    /\ redis' = RedisExpire(redis, clock + TickStep)
    /\ cacheResp' = [NoCall EXCEPT !.op = "tick"]
    /\ UNCHANGED <<proc, orders, memoryCache, invalidated, dataVars, wsVars>>

---------------------------------------------------------------------------
(* The job queue: Bull queue "data processing" (queue.ts) and the producer *)
(* addDataProcessingJob (data-processor.job.ts)                            *)

MaxJobs == 1       \* jobs ever admitted
MaxRand == 2       \* distinct outcomes of Math.random()
Rand == 1..MaxRand

Attempts    == 3   \* defaultJobOptions.attempts
Concurrency == 5   \* QUEUE_CONCURRENCY

\* `batch_${Date.now()}_${random}` and `immediate_${Date.now()}`
BatchId(now, rnd) == [kind |-> "batch", at |-> now, rnd |-> rnd]
ImmediateId(now)  == [kind |-> "immediate", at |-> now, rnd |-> 0]

\* the job that dataProcessingQueue.add("process_data", {data, batch_id,
\* priority}, {priority, delay: 0}) admits
NewJob(data, batch_id, priority) ==
    [data |-> data, batch_id |-> batch_id, priority |-> priority,
     state |-> "waiting", attemptsMade |-> 0, invocations |-> 0, pc |-> "none",
     stats |-> Null, persistLen |-> 0, worker |-> 0, notified |-> "none"]

DefaultPriority == 0   \* addDataProcessingJob(data, priority = 0)

\* addDataProcessingJob(data, priority): [ok, jobs]; queueFail says that
\* dataProcessingQueue.add throws
AddDataProcessingJob(js, now, data, priority, rnd, queueFail) ==
    IF queueFail THEN [ok |-> FALSE, jobs |-> js]
    ELSE [ok |-> TRUE, jobs |-> Append(js, NewJob(data, BatchId(now, rnd), priority))]

---------------------------------------------------------------------------
(* DataService (data.service, in websocket.service.ts) *)

SyncLimit  == 10     \* batches up to this size are persisted inline
BATCH_SIZE == 1000   \* chunk size of ingestHighThroughputData
LeadChunks == 3      \* chunks enqueued with priority 2

RealtimeKey    == "data:realtime_stats"
JobRealtimeKey == "realtime_stats"
HistoryPattern == "data:history:*"
StatsTTL       == 300
RealtimeTTL    == 30
JobRealtimeTTL == 60

\* what one iteration of the loop of validateDataPoints does with point:
\* the error it throws, or "ok"
PointError(point) ==
    IF \/ ~Truthy(point.type)
       \/ TypeOf(point.value) # "string"
       \/ TypeOf(point.value) # "string"
    THEN "Invalid data point: type is required and must be a string"
    ELSE IF TypeOf(point.value) # "number"
    THEN "Invalid data point: value must be a number"
    ELSE IF Truthy(point.metadata) /\ TypeOf(point.metadata) # "object"
    THEN "Invalid data point: metadata must be an object"
    ELSE "ok"

\* DataService.validateDataPoints: the error of the first point that has
\* one, or "ok"
ValidateDataPoints(dataPoints) ==
    LET bad == {i \in DOMAIN dataPoints : PointError(dataPoints[i]) # "ok"}
    IN  IF bad = {} THEN "ok"
        ELSE PointError(dataPoints[CHOOSE i \in bad : \A j \in bad : i <= j])

\* DataService.invalidateDataCaches: the shared tier afterwards (the three
\* calls swallow their errors)
InvalidateDataCaches(r, cacheFail) ==
    LET r1 == CacheDel(r, StatsKey, cacheFail).redis
        r2 == CacheDel(r1, RealtimeKey, cacheFail).redis
    IN  CacheInvalidatePattern(r2, HistoryPattern, cacheFail).redis

\* the nondeterminism of one ingestData call: storage, cache and queue
\* failures and the two random suffixes
IngestInputs ==
    [dbFail : BOOLEAN, cacheFail : BOOLEAN, queueFail : BOOLEAN,
     rnd1 : Rand, rnd2 : Rand]

\* the inputs that a call on dataPoints gets to consult: none when it throws
\* before its first await
InputsOf(dataPoints) ==
    IF Len(dataPoints) = 0 \/ ValidateDataPoints(dataPoints) # "ok"
    THEN {[dbFail |-> FALSE, cacheFail |-> FALSE, queueFail |-> FALSE,
           rnd1 |-> 1, rnd2 |-> 1]}
    ELSE IngestInputs

Thrown(st, js, r, name, message) ==
    [outcome |-> "throw", errName |-> name, error |-> message, queued |-> FALSE,
     batch_id |-> ImmediateId(0), store |-> st, jobs |-> js, redis |-> r]

\* DataService.ingestData: what it returns or throws, and the collection,
\* the queue and the shared tier afterwards
IngestData(st, js, r, now, dataPoints, in) ==
    IF Len(dataPoints) = 0
    THEN Thrown(st, js, r, "Error", "No data points provided")
    ELSE IF ValidateDataPoints(dataPoints) # "ok"
    THEN Thrown(st, js, r, "Error", ValidateDataPoints(dataPoints))
    ELSE IF Len(dataPoints) <= SyncLimit
    THEN LET created == RepoCreate(st, dataPoints, in.dbFail)
         IN  IF ~created.ok
             THEN Thrown(st, js, r,
                         IF in.dbFail THEN "MongoServerError" ELSE "ValidationError",
                         "insertMany failed")
             ELSE [outcome |-> "return", errName |-> "", error |-> "",
                   queued |-> FALSE, batch_id |-> ImmediateId(now),
                   store |-> created.store, jobs |-> js,
                   redis |-> InvalidateDataCaches(r, in.cacheFail)]
    ELSE LET batch_id == BatchId(now, in.rnd1)
             added == AddDataProcessingJob(js, now, dataPoints, 1, in.rnd2, in.queueFail)
         IN  IF ~added.ok
             THEN Thrown(st, js, r, "Error", "queue add failed")
             ELSE [outcome |-> "return", errName |-> "", error |-> "",
                   queued |-> TRUE, batch_id |-> batch_id,
                   store |-> st, jobs |-> added.jobs, redis |-> r]

\* the chunks of ingestHighThroughputData
NumChunks(dataStream) == (Len(dataStream) + BATCH_SIZE - 1) \div BATCH_SIZE
\* a slice that starts one point late
LateChunk(dataStream, index) ==
    SubSeq(dataStream, index * BATCH_SIZE + 2,
           IF (index + 1) * BATCH_SIZE < Len(dataStream)
           THEN (index + 1) * BATCH_SIZE ELSE Len(dataStream))
Chunk(dataStream, index) ==
    SubSeq(dataStream, index * BATCH_SIZE + 1,
           IF (index + 1) * BATCH_SIZE < Len(dataStream)
           THEN (index + 1) * BATCH_SIZE ELSE Len(dataStream))
ChunkPriority(index) == IF index < LeadChunks THEN 2 ELSE 1

\* the queue after the add calls of chunks 0 .. n-1, of which those in
\* failing throw; rnd gives each chunk its random suffix
RECURSIVE AddChunks(_, _, _, _, _, _)
AddChunks(js, now, dataStream, n, rnd, failing) ==
    IF n = 0 THEN js
    ELSE AddDataProcessingJob(AddChunks(js, now, dataStream, n - 1, rnd, failing),
                              now, Chunk(dataStream, n - 1), ChunkPriority(n - 1),
                              rnd[n], (n - 1) \in failing).jobs

\* DataService.ingestHighThroughputData: Promise.all over the add calls
\* rejects when one of them throws; the others still go through
IngestHighThroughputData(js, now, dataStream, rnd, failing) ==
    [outcome |-> IF failing = {} THEN "return" ELSE "throw",
     jobs |-> AddChunks(js, now, dataStream, NumChunks(dataStream), rnd, failing)]

---------------------------------------------------------------------------
(* WebSocketService (websocket.service.ts) *)

MaxConns == 2
Conns == 1..MaxConns
Rooms == {"data_temperature", "data_humidity"}

\* a connection that has not been opened yet; rooms are the rooms that the
\* socket has joined by subscribe (the room that socket.io keeps for every
\* socket under its own id is left out)
NewSocket == [state |-> "new", authenticated |-> FALSE, rooms |-> {}]

NoBatch == [kind |-> "none", at |-> 0, rnd |-> 0]
\* an event on the wire
Event(event, detail) ==
    [event |-> event, detail |-> detail, batch_id |-> NoBatch, data |-> <<>>]

NoReq == [conn |-> 0, kind |-> "none", room |-> "", authenticated |-> FALSE,
          ingested |-> FALSE]
Nothing == [c \in Conns |-> <<>>]
\* only connection c is sent the events es
OnlyTo(c, es) == [x \in Conns |-> IF x = c THEN es ELSE <<>>]

\* the keys of connectedClients
connectedClients == {c \in Conns : sockets[c].state = "connected"}

\* the payloads of authenticate: {token?, userId?}
Credentials ==
    {[token |-> Undefined, userId |-> Undefined],
     [token |-> Str(""), userId |-> Undefined],
     [token |-> Str("t"), userId |-> Undefined],
     [token |-> Undefined, userId |-> Str("u")]}

\* what clients send with submit_data
Submissions == {<<P_temp>>, <<P_strval>>}

\* a handler that lets every socket through
NeverRefused(socket) == FALSE

\* the test `if (!socket.data.authenticated)` of the subscribe and
\* submit_data handlers
Unauthenticated(socket) == ~socket.authenticated

Request(c, kind, room) ==
    [conn |-> c, kind |-> kind, room |-> room,
     authenticated |-> sockets[c].authenticated, ingested |-> FALSE]

\* a connection that has asked for no room
NoRequests == [r \in Rooms |-> "none"]

\* socket.leave(room) without effect
Stayed(rooms, room) == rooms

\* socket.leave(room): the rooms of the socket afterwards
Left(rooms, room) == rooms \ {room}

\* socket.join(room) without effect
NotJoined(rooms, room) == rooms

\* socket.join(room): the rooms of the socket afterwards
Joined(rooms, room) == rooms \cup {room}

\* io.on("connection"): socket ids are only compared, so the connections
\* open in the order of their numbers
Connect(c) ==
    /\ sockets[c].state = "new"
    /\ \A d \in Conns : d < c => sockets[d].state # "new"
    /\ sockets' = [sockets EXCEPT ![c].state = "connected"]
    /\ wsReq' = Request(c, "connection", "")
    /\ emitted' = Nothing
    /\ UNCHANGED <<clock, proc, orders, cacheVars, dataVars, roomSubscriptions, lastRequest>>

\* socket.on("authenticate")
Authenticate(c, data) ==
    /\ c \in connectedClients
    /\ wsReq' = Request(c, "authenticate", "")
    /\ IF Truthy(data.token) \/ Truthy(data.userId)
       THEN /\ sockets' = [sockets EXCEPT ![c].authenticated = TRUE]
            /\ emitted' = OnlyTo(c, <<Event("authenticated", "success")>>)
       ELSE /\ sockets' = sockets
            /\ emitted' = OnlyTo(c, <<Event("authentication", "Unauthorized")>>)
    /\ UNCHANGED <<clock, proc, orders, cacheVars, dataVars, roomSubscriptions, lastRequest>>

\* socket.on("subscribe")
Subscribe(c, room) ==
    /\ c \in connectedClients
    /\ wsReq' = Request(c, "subscribe", room)
    /\ IF Unauthenticated(sockets[c])
       THEN /\ emitted' = OnlyTo(c, <<Event("error", "Authentication required")>>)
            /\ UNCHANGED <<sockets, roomSubscriptions, lastRequest>>
       ELSE /\ sockets' = [sockets EXCEPT ![c].rooms = Joined(@, room)]
            /\ lastRequest' = [lastRequest EXCEPT ![c] = Put(@, room, "subscribe")]
            /\ roomSubscriptions' =
                  Put(roomSubscriptions, room,
                      (IF room \in DOMAIN roomSubscriptions
                       THEN roomSubscriptions[room] ELSE {}) \cup {c})
            /\ emitted' = OnlyTo(c, <<Event("subscribed", room)>>)
    /\ UNCHANGED <<clock, proc, orders, cacheVars, dataVars>>

\* a removal that removes nothing
StillListed(subs, c, rs) == subs

\* a removal that leaves the emptied entries in place
UnlistedOnly(subs, c, rs) ==
    [r \in DOMAIN subs |-> IF r \in rs THEN subs[r] \ {c} ELSE subs[r]]

\* a removal that spares the last subscriber of a room
KeptWhenLast(subs, c, rs) ==
    [r \in DOMAIN subs |->
        IF r \in rs /\ subs[r] # {c} THEN subs[r] \ {c} ELSE subs[r]]

\* a removal that drops the entries of the rooms rs whole
EntryDropped(subs, c, rs) == Drop(subs, DOMAIN subs \cap rs)

\* roomSubscriptions without c in the rooms rs, and without the entries
\* that this empties
Unlisted(subs, c, rs) ==
    LET left == [r \in DOMAIN subs |-> IF r \in rs THEN subs[r] \ {c} ELSE subs[r]]
    IN  Drop(left, {r \in DOMAIN subs \cap rs : left[r] = {}})

\* socket.on("unsubscribe")
Unsubscribe(c, room) ==
    /\ c \in connectedClients
    /\ wsReq' = Request(c, "unsubscribe", room)
    /\ sockets' = [sockets EXCEPT ![c].rooms = Left(@, room)]
    /\ lastRequest' = [lastRequest EXCEPT ![c][room] = "unsubscribe"]
    /\ roomSubscriptions' = Unlisted(roomSubscriptions, c, {room})
    /\ emitted' = OnlyTo(c, <<Event("unsubscribed", room)>>)
    /\ UNCHANGED <<clock, proc, orders, cacheVars, dataVars>>

\* socket.on("submit_data")
SubmitData(c, data) ==
    /\ c \in connectedClients
    /\ IF Unauthenticated(sockets[c])
       THEN /\ wsReq' = Request(c, "submit_data", "")
            /\ emitted' = OnlyTo(c, <<Event("error", "Authentication required")>>)
            /\ UNCHANGED <<store, jobs, redis>>
       ELSE \E in \in InputsOf(data) :
              LET res == IngestData(store, jobs, redis, clock, data, in)
              IN  /\ Len(res.jobs) <= MaxJobs /\ Len(res.store) <= MaxStore
                  /\ wsReq' = [Request(c, "submit_data", "") EXCEPT !.ingested = TRUE]
                  /\ store' = res.store
                  /\ jobs' = res.jobs
                  /\ redis' = res.redis
                  /\ emitted' =
                        OnlyTo(c, IF res.outcome = "return"
                                  THEN <<Event("data_received", ToString(Len(data)))>>
                                  ELSE <<Event("error", "Failed to process data")>>)
    /\ UNCHANGED <<clock, proc, orders, memoryCache, cacheResp, invalidated, reader, resp, floor,
                   sockets, roomSubscriptions, lastRequest>>

\* socket.on("disconnect"); socket.io has the socket leave its rooms
Disconnect(c) ==
    /\ c \in connectedClients
    /\ wsReq' = Request(c, "disconnect", "")
    /\ sockets' = [sockets EXCEPT ![c].state = "closed", ![c].rooms = {}]
    /\ roomSubscriptions' = Unlisted(roomSubscriptions, c, DOMAIN roomSubscriptions)
    /\ lastRequest' = [lastRequest EXCEPT ![c] = NoRequests]
    /\ emitted' = Nothing
    /\ UNCHANGED <<clock, proc, orders, cacheVars, dataVars>>

\* roomSubscriptions.get(room), or the empty set when room has no entry
Subscribers(room) ==
    IF room \in DOMAIN roomSubscriptions THEN roomSubscriptions[room] ELSE {}

\* io.to(room): the connections that the transport has in room
RoomMembers(room) == {c \in connectedClients : room \in sockets[c].rooms}

\* WebSocketService.broadcastToRoom(room, event, data)
BroadcastToRoom(room) ==
    /\ wsReq' = [NoReq EXCEPT !.kind = "broadcastToRoom", !.room = room]
    /\ emitted' = [c \in Conns |->
                     IF c \in RoomMembers(room)
                     THEN <<Event("type_data_update", room)>> ELSE <<>>]
    /\ UNCHANGED <<clock, proc, orders, cacheVars, dataVars, sockets, roomSubscriptions,
                   lastRequest>>

\* an emit that only reaches the sockets that have authenticated
AuthenticatedSockets(ss) ==
    {c \in Conns : ss[c].state = "connected" /\ ss[c].authenticated}

\* io.emit: the sockets of the server, which are those that have connected
\* and not disconnected
AllSockets(ss) == {c \in Conns : ss[c].state = "connected"}

\* WebSocketService.broadcastData(data): io.emit to every connected socket
BroadcastData ==
    /\ wsReq' = [NoReq EXCEPT !.kind = "broadcastData"]
    /\ emitted' = [c \in Conns |->
                     IF c \in AllSockets(sockets)
                     THEN <<Event("data_update", "")>> ELSE <<>>]
    /\ UNCHANGED <<clock, proc, orders, cacheVars, dataVars, sockets, roomSubscriptions,
                   lastRequest>>


---------------------------------------------------------------------------

(* The ingestion entry points *)

JoiMaxItems == 1000   \* dataIngestionSchema: at most 1000 items
HighLimit   == 5000   \* the controller's high-throughput threshold

\* the batch of n points that are all a, but for the last, which is b
MkBatch(n, a, b) == [i \in 1..n |-> IF i = n THEN b ELSE a]
BatchLens == {0, 1, SyncLimit, SyncLimit + 1}
Batches == {MkBatch(n, P_temp, b) : n \in BatchLens, b \in Points}
\* the batches that the readers are checked against
SyncBatches == {MkBatch(1, P_temp, P_temp)}
\* request bodies also come longer than the schema allows
Bodies ==
    Batches \cup {MkBatch(n, P_temp, P_temp) : n \in {JoiMaxItems + 1, HighLimit + 1}}
\* the streams handed to ingestHighThroughputData
Streams == {<<P_temp>>, <<P_hum>>, <<P_temp, P_hum>>, <<P_strval>>}

\* a point as the contract wants it: a non-empty string type, a numeric
\* value, metadata absent or an object
ValidPoint(p) ==
    /\ TypeOf(p.type) = "string" /\ p.type.v # ""
    /\ TypeOf(p.value) = "number"
    /\ (p.metadata = Undefined \/ TypeOf(p.metadata) = "object")
ValidBatch(b) == \A i \in DOMAIN b : ValidPoint(b[i])

\* Math.random() now: a suffix already in use, or the first unused one (the
\* suffixes are only ever compared)
UsedRand == {jobs[j].batch_id.rnd : j \in DOMAIN jobs} \cup {resp.batch_id.rnd}
FreshRand == {x \in Rand : x = 1 \/ x - 1 \in UsedRand}

NoResp ==
    [op |-> "none", n |-> 0, valid |-> FALSE, outcome |-> "none", errName |-> "",
     error |-> "", queued |-> FALSE, batch_id |-> NoBatch, persisted |-> 0, enqueued |-> 0,
     status |-> 0, totalBefore |-> 0]

\* the record of a call on dataPoints that ended as res says
Response(op, dataPoints, res, status) ==
    [op |-> op, n |-> Len(dataPoints), valid |-> ValidBatch(dataPoints),
     outcome |-> res.outcome, errName |-> res.errName, error |-> res.error,
     queued |-> res.queued,
     batch_id |-> res.batch_id,
     persisted |-> Len(res.store) - Len(store),
     enqueued |-> Len(res.jobs) - Len(jobs),
     status |-> status, totalBefore |-> Len(store)]

\* dataService.ingestData(dataPoints) is called
IngestDataCall(dataPoints) ==
    /\ \E in \in InputsOf(dataPoints) :
          LET res == IngestData(store, jobs, redis, clock, dataPoints, in)
          IN  /\ Len(res.jobs) <= MaxJobs /\ Len(res.store) <= MaxStore
              /\ store' = res.store
              /\ jobs' = res.jobs
              /\ redis' = res.redis
              /\ resp' = Response("ingestData", dataPoints, res, 0)
    /\ UNCHANGED <<clock, proc, orders, memoryCache, cacheResp, invalidated, reader, floor, wsVars>>

\* dataService.ingestHighThroughputData(dataStream) is called on a queue
\* that takes room jobs
HighThroughputCall(dataStream, room) ==
    /\ Len(jobs) + NumChunks(dataStream) <= room
    /\ \E rnd \in [1..NumChunks(dataStream) -> FreshRand],
          failing \in SUBSET (0..NumChunks(dataStream) - 1) :
          LET res == IngestHighThroughputData(jobs, clock, dataStream, rnd, failing)
          IN  /\ jobs' = res.jobs
              /\ resp' = [NoResp EXCEPT
                            !.op = "ingestHighThroughputData",
                            !.n = Len(dataStream),
                            !.valid = ValidBatch(dataStream),
                            !.outcome = res.outcome,
                            !.queued = res.outcome = "return",
                            !.enqueued = Len(res.jobs) - Len(jobs),
                            !.totalBefore = Len(store)]
    /\ UNCHANGED <<clock, proc, orders, cacheVars, store, reader, floor, wsVars>>

IngestHighThroughputCall(dataStream) == HighThroughputCall(dataStream, MaxJobs)

\* dataPointSchema
JoiPoint(p) ==
    /\ TypeOf(p.type) = "string" /\ Len(p.type.v) >= 1 /\ Len(p.type.v) <= 100
    /\ TypeOf(p.value) = "number"
    /\ (p.metadata = Undefined \/ p.metadata.k = "metadata")

\* validateDataIngestion on an array body: does the request go on?
ValidateDataIngestion(body) ==
    /\ Len(body) >= 1 /\ Len(body) <= JoiMaxItems
    /\ \A i \in DOMAIN body : JoiPoint(body[i])

\* does message contain part?
Includes(message, part) ==
    \E i \in 1..Len(message) :
        /\ i + Len(part) - 1 <= Len(message)
        /\ SubSeq(message, i, i + Len(part) - 1) = part

\* errorHandler: the status of the response to a request that threw
ErrorStatus(errName, message) ==
    IF errName = "ValidationError" THEN 400
    ELSE IF errName = "UnauthorizedError" THEN 401
    ELSE IF Includes(message, "not found") THEN 404
    ELSE 500

\* POST /data/ingest with an array body: validateDataIngestion, then
\* DataController.ingestData, then errorHandler
PostIngest(body) ==
    /\ IF ~ValidateDataIngestion(body)
       THEN /\ resp' = [NoResp EXCEPT !.op = "POST /data/ingest", !.n = Len(body),
                           !.valid = ValidBatch(body), !.outcome = "rejected",
                           !.status = 400, !.totalBefore = Len(store)]
            /\ UNCHANGED <<store, jobs, redis>>
       ELSE \E in \in InputsOf(body) :
              IF Len(body) = 0
              THEN /\ resp' = [NoResp EXCEPT !.op = "POST /data/ingest",
                                  !.outcome = "rejected", !.status = 400,
                                  !.totalBefore = Len(store)]
                   /\ UNCHANGED <<store, jobs, redis>>
              ELSE IF Len(body) > HighLimit
              THEN LET res == IngestHighThroughputData(
                                  jobs, clock, body,
                                  [i \in 1..NumChunks(body) |-> in.rnd1],
                                  IF in.queueFail THEN {0} ELSE {})
                   IN  /\ Len(res.jobs) <= MaxJobs
                       /\ jobs' = res.jobs
                       /\ resp' = [NoResp EXCEPT !.op = "POST /data/ingest",
                                      !.n = Len(body), !.valid = ValidBatch(body),
                                      !.outcome = res.outcome,
                                      !.queued = res.outcome = "return",
                                      !.enqueued = Len(res.jobs) - Len(jobs),
                                      !.errName = IF res.outcome = "return" THEN "" ELSE "Error",
                                      !.error = IF res.outcome = "return" THEN ""
                                                ELSE "queue add failed",
                                      !.status = IF res.outcome = "return" THEN 202
                                                 ELSE ErrorStatus("Error", "queue add failed"),
                                      !.totalBefore = Len(store)]
                       /\ UNCHANGED <<store, redis>>
              ELSE LET res == IngestData(store, jobs, redis, clock, body, in)
                   IN  /\ Len(res.jobs) <= MaxJobs /\ Len(res.store) <= MaxStore
                       /\ store' = res.store
                       /\ jobs' = res.jobs
                       /\ redis' = res.redis
                       /\ resp' = Response("POST /data/ingest", body, res,
                                     IF res.outcome = "return"
                                     THEN (IF res.queued THEN 202 ELSE 201)
                                     ELSE ErrorStatus(res.errName, res.error))
    /\ UNCHANGED <<clock, proc, orders, memoryCache, cacheResp, invalidated, reader, floor, wsVars>>

(* The readers: getDataStats, getRealtimeStats, getDataHistory and       *)
(* GET /data/stats behind cacheMiddleware(30).  One read is in flight at a *)
(* time; it is suspended at every await.                                   *)

HttpStatsKey == "/api/v1/data/stats:{}"
HttpStatsTTL == 30
ReadOps == {"getDataStats", "getRealtimeStats", "getDataHistory", "GET /data/stats"}

Idle == [op |-> "idle", pc |-> "idle", val |-> Null, hit |-> FALSE,
         syncNeed |-> 0, jobNeed |-> 0]

\* total_points (or the total of a page) of a value that a read returned
TotalOf(value) ==
    CASE value.k = "stats" -> value.v.total_points
      [] value.k = "page"  -> value.v.total
      [] value.k = "body"  -> value.v.data.total_points
      [] OTHER             -> 0

\* the key under which the service caches what op reads
KeyOf(op) ==
    CASE op = "getRealtimeStats" -> RealtimeKey
      [] op = "getDataHistory"   -> HistoryKey
      [] OTHER                   -> StatsKey

\* the number of documents that a read starting now has to reflect if the
\* last ingestion call was a synchronous ingest of a valid batch
SyncNeed ==
    IF resp.op \in {"ingestData", "POST /data/ingest"} /\ resp.valid
          /\ resp.n >= 1 /\ resp.n <= SyncLimit
    THEN resp.totalBefore + resp.n ELSE 0

\* the first cache lookup of the service method of op, made by the read rd
ServiceLookup(rd, fail) ==
    IF rd.op \in {"getDataStats", "GET /data/stats"}
    THEN LET res == CacheGetMultiLevel(redis, memoryCache, clock, StatsKey, fail)
         IN  /\ memoryCache' = res.memoryCache
             /\ reader' = IF Truthy(res.value)
                          THEN IF rd.op = "getDataStats"
                               THEN [rd EXCEPT !.pc = "done", !.val = res.value, !.hit = TRUE]
                               ELSE [rd EXCEPT !.pc = "respond", !.val = res.value, !.hit = TRUE]
                          ELSE [rd EXCEPT !.pc = "query"]
    ELSE LET value == CacheGet(redis, KeyOf(rd.op), fail)
         IN  /\ memoryCache' = memoryCache
             /\ reader' = IF Truthy(value)
                          THEN [rd EXCEPT !.pc = "done", !.val = value, !.hit = TRUE]
                          ELSE [rd EXCEPT !.pc = "query"]

\* a read begins: the first cache lookup of the request
StartRead(op, fail) ==
    /\ reader.pc \in {"idle", "done"}
    /\ LET rd == [op |-> op, pc |-> "lookup", val |-> Null, hit |-> FALSE,
                  syncNeed |-> SyncNeed, jobNeed |-> floor]
       IN  IF op = "GET /data/stats"
           THEN LET cachedResponse == CacheGet(redis, HttpStatsKey, fail)
                IN  /\ reader' = IF Truthy(cachedResponse)
                                 THEN [rd EXCEPT !.pc = "done", !.val = cachedResponse,
                                                 !.hit = TRUE]
                                 ELSE rd
                    /\ memoryCache' = memoryCache
           ELSE ServiceLookup(rd, fail)
    /\ UNCHANGED <<clock, proc, orders, redis, cacheResp, invalidated, store, jobs, resp, floor, wsVars>>

\* GET /data/stats after a miss in the middleware: the controller calls
\* getDataStats
ReadLookup(fail) ==
    /\ reader.pc = "lookup"
    /\ ServiceLookup(reader, fail)
    /\ UNCHANGED <<clock, proc, orders, redis, cacheResp, invalidated, store, jobs, resp, floor, wsVars>>

\* after a miss: the storage read
ReadQuery(dbFail) ==
    /\ reader.pc = "query"
    /\ reader' = IF dbFail THEN [reader EXCEPT !.pc = "done", !.val = Null]
                 ELSE [reader EXCEPT
                          !.pc = "fill",
                          !.val = CASE reader.op = "getRealtimeStats" -> RepoGetRealtimeStats(store)
                                    [] reader.op = "getDataHistory"   -> RepoFindAll(store)
                                    [] OTHER                          -> RepoGetStats(store)]
    /\ UNCHANGED <<clock, proc, orders, cacheVars, store, jobs, resp, floor, wsVars>>

\* after the storage read: the cache fill, and the method returns
ReadFill(fail) ==
    /\ reader.pc = "fill"
    /\ IF reader.op \in {"getDataStats", "GET /data/stats"}
       THEN LET res == CacheSetMultiLevel(redis, memoryCache, clock, StatsKey,
                                          reader.val, StatsTTL, fail)
            IN  /\ redis' = res.redis
                /\ memoryCache' = res.memoryCache
       ELSE /\ redis' = CacheSet(redis, clock, KeyOf(reader.op), reader.val,
                                 IF reader.op = "getRealtimeStats" THEN RealtimeTTL
                                 ELSE HistoryTTL, fail).redis
            /\ memoryCache' = memoryCache
    /\ reader' = [reader EXCEPT
                    !.pc = IF reader.op = "GET /data/stats" THEN "respond" ELSE "done"]
    /\ UNCHANGED <<clock, proc, orders, cacheResp, invalidated, store, jobs, resp, floor, wsVars>>

\* GET /data/stats: res.json(body), which the middleware caches for 30 s
ReadRespond(fail) ==
    /\ reader.pc = "respond"
    /\ redis' = CacheSet(redis, clock, HttpStatsKey, StatsBody(reader.val),
                         HttpStatsTTL, fail).redis
    /\ reader' = [reader EXCEPT !.pc = "done", !.val = StatsBody(reader.val)]
    /\ UNCHANGED <<clock, proc, orders, memoryCache, cacheResp, invalidated, store, jobs, resp,
                   floor, wsVars>>

(* The worker: dataProcessingQueue.process("process_data", 5,             *)
(* processDataJob), with Bull's retry policy (attempts: 3, exponential     *)
(* backoff).  An attempt is suspended at every await.                      *)

JobIds == 1..Len(jobs)
Active == {j \in JobIds : jobs[j].state = "active"}

\* Bull takes the waiting job with the smallest priority number, and the
\* one admitted first among equals
NextWaiting(j) ==
    /\ jobs[j].state = "waiting"
    /\ \A i \in JobIds :
          jobs[i].state = "waiting" /\ i # j =>
             \/ jobs[j].priority < jobs[i].priority
             \/ jobs[j].priority = jobs[i].priority /\ j < i

\* process("process_data", 5, ...) has Bull run 5 processing loops, the
\* workers; each takes a job, awaits processDataJob, and only then takes
\* its next job
Workers == 1..Concurrency

\* a pool in which no worker is ever found busy
AllWorkers(js) == Workers

\* the workers that are awaiting no job
FreeWorkers(js) ==
    {w \in Workers : \A i \in DOMAIN js : js[i].state = "active" => js[i].worker # w}

\* a free worker takes job j and invokes processDataJob (the workers are
\* alike: the job goes to the free worker of the lowest number)
StartJob(j) ==
    /\ FreeWorkers(jobs) # {}
    /\ NextWaiting(j)
    /\ jobs' = [jobs EXCEPT ![j].state = "active", ![j].pc = "persist",
                            ![j].invocations = @ + 1,
                            ![j].worker = MinOf(FreeWorkers(jobs))]
    /\ UNCHANGED <<clock, proc, orders, cacheVars, store, reader, resp, floor, wsVars>>

\* OneMoreAttempt is RetryAllowed with the ceiling off by one
OneMoreAttempt(made) == made <= Attempts

\* Bull retries a job while attemptsMade < opts.attempts
RetryAllowed(made) == made < Attempts

\* a failed attempt of which the queue tells nobody
SilentAttempt(job) ==
    [job EXCEPT !.attemptsMade = @ + 1, !.pc = "none", !.stats = Null,
                !.persistLen = 0, !.worker = 0,
                !.state = IF job.attemptsMade + 1 < Attempts THEN "delayed"
                          ELSE "failed"]

\* processDataJob threw: the attempt is counted, and the job is delayed for
\* its backoff or failed for good; either way the queue emits 'failed'
\* (notified is the last event that the queue emitted for the job)
FailedAttempt(job) ==
    [job EXCEPT !.attemptsMade = @ + 1, !.pc = "none", !.stats = Null,
                !.persistLen = 0, !.worker = 0, !.notified = "failed",
                !.state = IF RetryAllowed(job.attemptsMade + 1) THEN "delayed"
                          ELSE "failed"]

\* await dataRepository.create(data); the collection takes MaxStore documents
JobPersist(j, dbFail) ==
    /\ jobs[j].state = "active" /\ jobs[j].pc = "persist"
    /\ dbFail \/ Len(store) + Len(jobs[j].data) <= MaxStore
    /\ LET created == RepoCreate(store, jobs[j].data, dbFail)
       IN  IF created.ok
           THEN /\ store' = created.store
                /\ jobs' = [jobs EXCEPT ![j].pc = "stats",
                                        ![j].persistLen = Len(created.store)]
           ELSE /\ store' = store
                /\ jobs' = [jobs EXCEPT ![j] = FailedAttempt(jobs[j])]
    /\ UNCHANGED <<clock, proc, orders, cacheVars, reader, resp, floor, wsVars>>

\* await dataRepository.getRealtimeStats()
JobStats(j, dbFail) ==
    /\ jobs[j].state = "active" /\ jobs[j].pc = "stats"
    /\ jobs' = IF dbFail THEN [jobs EXCEPT ![j] = FailedAttempt(jobs[j])]
               ELSE [jobs EXCEPT ![j].pc = "publish",
                                 ![j].stats = RepoGetRealtimeStats(store)]
    /\ UNCHANGED <<clock, proc, orders, cacheVars, store, reader, resp, floor, wsVars>>

\* the k-th smallest element of the set S of numbers
RECURSIVE Sorted(_)
Sorted(S) ==
    IF S = {} THEN <<>>
    ELSE LET m == CHOOSE x \in S : \A y \in S : x <= y
         IN  <<m>> \o Sorted(S \ {m})

\* Object.keys(dataByType): the types of data in the order of their first
\* occurrence
TypeOrder(data) ==
    LET first == {i \in DOMAIN data : \A h \in 1..(i - 1) : data[h].type.v # data[i].type.v}
    IN  [n \in 1..Cardinality(first) |-> data[Sorted(first)[n]].type.v]

\* dataByType[type]
OfType(data, type) ==
    LET idx == Sorted({i \in DOMAIN data : data[i].type.v = type})
    IN  [n \in 1..Len(idx) |-> data[idx[n]]]

\* the names that the accumulator {} of the reduce inherits from
\* Object.prototype
ProtoKeys ==
    {"constructor", "__proto__", "hasOwnProperty", "isPrototypeOf",
     "propertyIsEnumerable", "toLocaleString", "toString", "valueOf",
     "__defineGetter__", "__defineSetter__", "__lookupGetter__", "__lookupSetter__"}

\* does data.reduce throw?  acc[point.type] of an inherited name is truthy,
\* so no array is put there, and it has no push: a TypeError
GroupingThrows(data) == \E i \in DOMAIN data : data[i].type.v \in ProtoKeys

\* what broadcastData({type: "data_processed", ...}) and the
\* broadcastToRoom calls of job send to connection c; when the reduce
\* throws, the first is out and none of the others is made
JobEvents(job, c) ==
    IF sockets[c].state # "connected" THEN <<>>
    ELSE <<[event |-> "data_update", detail |-> "data_processed",
            batch_id |-> job.batch_id, data |-> <<>>]>>
         \o IF GroupingThrows(job.data) THEN <<>> ELSE
            LET types == TypeOrder(job.data)
                mine  == Sorted({n \in DOMAIN types :
                                   ("data_" \o types[n]) \in sockets[c].rooms})
            IN  [n \in 1..Len(mine) |->
                   [event |-> "type_data_update", detail |-> types[mine[n]],
                    batch_id |-> NoBatch, data |-> OfType(job.data, types[mine[n]])]]

\* await cacheService.set("realtime_stats", stats, 60), the broadcasts, and
\* the routine returns: Bull marks the job completed and emits 'completed';
\* or the reduce between the broadcasts throws, and the attempt has failed
JobPublish(j, fail) ==
    /\ jobs[j].state = "active" /\ jobs[j].pc = "publish"
    /\ LET res == CacheSet(redis, clock, JobRealtimeKey, jobs[j].stats,
                           JobRealtimeTTL, fail)
       IN  /\ redis' = res.redis
           /\ cacheResp' = [op |-> "set", key |-> JobRealtimeKey,
                            arg |-> jobs[j].stats, result |-> Bool(res.ok),
                            failed |-> fail, after |-> <<>>]
    /\ emitted' = [c \in Conns |-> JobEvents(jobs[j], c)]
    /\ jobs' = IF GroupingThrows(jobs[j].data)
               THEN [jobs EXCEPT ![j] = FailedAttempt(jobs[j])]
               ELSE [jobs EXCEPT ![j].state = "completed", ![j].pc = "none",
                                 ![j].stats = Null, ![j].persistLen = 0,
                                 ![j].worker = 0, ![j].notified = "completed"]
    /\ floor' = IF GroupingThrows(jobs[j].data) THEN floor
                ELSE Max(floor, jobs[j].persistLen)
    /\ UNCHANGED <<clock, proc, orders, memoryCache, invalidated, store, reader, resp,
                   sockets, roomSubscriptions, wsReq, lastRequest>>

\* the backoff of a delayed job has run out
RetryJob(j) ==
    /\ jobs[j].state = "delayed"
    /\ jobs' = [jobs EXCEPT ![j].state = "waiting"]
    /\ UNCHANGED <<clock, proc, orders, cacheVars, store, reader, resp, floor, wsVars>>

\* the process after startServer: listening, connected to MongoDB and to
\* Redis, the queue processing
Serving ==
    [signal |-> FALSE, server |-> "listening", queue |-> "open",
     db |-> TRUE, cache |-> TRUE, exited |-> FALSE]

Init ==
    /\ clock = 0
    /\ redis = Empty
    /\ memoryCache = Empty
    /\ cacheResp = NoCall
    /\ invalidated = {}
    /\ store = <<>>
    /\ jobs = <<>>
    /\ reader = Idle
    /\ resp = NoResp
    /\ floor = 0
    /\ sockets = [c \in Conns |-> NewSocket]
    /\ roomSubscriptions = Empty
    /\ wsReq = NoReq
    /\ lastRequest = [c \in Conns |-> NoRequests]
    /\ emitted = Nothing
    /\ proc = Serving
    /\ orders = 0

\* the cache service under its callers
NextCache ==
    \/ \E k \in CacheKeys, f \in BOOLEAN : Get(k, f)
    \/ \E k \in CacheKeys, f \in BOOLEAN : \E v \in ValuesFor(k), ttl \in TTLsFor(k) :
          Set(k, v, ttl, f)
    \/ \E k \in CacheKeys, f \in BOOLEAN : Del(k, f)
    \/ \E p \in Patterns, f \in BOOLEAN : InvalidatePattern(p, f)
    \/ \E f \in BOOLEAN : GetMultiLevel(StatsKey, f)
    \/ \E f \in BOOLEAN : \E v \in ValuesFor(StatsKey), ttl \in TTLsFor(StatsKey) :
          SetMultiLevel(StatsKey, v, ttl, f)
    \/ Tick

SpecCache == Init /\ [][NextCache]_vars


\* the queue and its worker under ingestHighThroughputData
NextQueue ==
    \/ \E ds \in Streams : IngestHighThroughputCall(ds)
    \/ \E j \in JobIds : StartJob(j)
    \/ \E j \in JobIds, f \in BOOLEAN : JobPersist(j, f)
    \/ \E j \in JobIds, f \in BOOLEAN : JobStats(j, f)
    \/ \E j \in JobIds, f \in BOOLEAN : JobPublish(j, f)
    \/ \E j \in JobIds : RetryJob(j)

SpecQueue == Init /\ [][NextQueue]_vars

\* the next step of job j: a worker takes it, an await of its attempt
\* settles, or its backoff runs out
Work(j) ==
    /\ j \in JobIds
    /\ \/ StartJob(j)
       \/ \E f \in BOOLEAN : JobPersist(j, f)
       \/ \E f \in BOOLEAN : JobStats(j, f)
       \/ \E f \in BOOLEAN : JobPublish(j, f)
       \/ RetryJob(j)

\* the queue with workers that keep running: the processing loops poll the
\* queue, every await of an attempt settles, every backoff timer fires
SpecQueueFair == SpecQueue /\ \A j \in 1..MaxJobs : WF_vars(Work(j))

\* the ingestion entry points over the queue and its worker
NextIngest ==
    \/ \E b \in Batches : IngestDataCall(b)
    \/ \E b \in Bodies : PostIngest(b)
    \/ NextQueue

SpecIngest == Init /\ [][NextIngest]_vars

(* Chunking: ingestHighThroughputData on long streams of distinguishable   *)
(* points, each call on an empty queue, and the workers taking the chunks  *)

MaxChunks == 4     \* chunks of the longest stream

\* n readings, the i-th with value i
Readings(n) == [i \in 1..n |-> [P_temp EXCEPT !.value = Num(i)]]

\* lengths at the chunk boundaries
StreamLens ==
    {n \in {c * BATCH_SIZE + d : c \in 0..MaxChunks, d \in {-1, 0, 1}} :
        n >= 0 /\ n <= (MaxChunks - 1) * BATCH_SIZE + 1}

NextChunks ==
    \/ \E n \in StreamLens : jobs = <<>> /\ HighThroughputCall(Readings(n), MaxChunks)
    \/ \E j \in JobIds : StartJob(j)

SpecChunks == Init /\ [][NextChunks]_vars

(* The worker pool under more jobs than it has workers: single readings    *)
(* are admitted one by one and every attempt ends by dataRepository.create *)
(* throwing (attempts that return, and retries, are explored in SpecQueue) *)

PoolJobs == Concurrency + 1

NextPool ==
    \/ HighThroughputCall(<<P_temp>>, PoolJobs)
    \/ \E j \in JobIds : StartJob(j)
    \/ \E j \in JobIds : JobPersist(j, TRUE)

SpecPool == Init /\ [][NextPool]_vars

(* The shared tier failing under its callers: the methods of CacheService, *)
(* the synchronous ingest and a job whose storage calls succeed            *)

NextFaults ==
    \/ \E k \in CacheKeys, f \in BOOLEAN : Get(k, f)
    \/ \E k \in CacheKeys, f \in BOOLEAN : \E v \in ValuesFor(k), ttl \in TTLsFor(k) :
          Set(k, v, ttl, f)
    \/ \E k \in CacheKeys, f \in BOOLEAN : Del(k, f)
    \/ \E p \in Patterns, f \in BOOLEAN : InvalidatePattern(p, f)
    \/ \E b \in SyncBatches : IngestDataCall(b)
    \/ jobs = <<>> /\ IngestHighThroughputCall(<<P_temp>>)
    \/ \E j \in JobIds : StartJob(j)
    \/ \E j \in JobIds : JobPersist(j, FALSE)
    \/ \E j \in JobIds : JobStats(j, FALSE)
    \/ \E j \in JobIds, f \in BOOLEAN : JobPublish(j, f)

SpecFaults == Init /\ [][NextFaults]_vars

(* Two deployments on one shared tier: this one, with keyPrefix, and       *)
(* another instance of CacheService whose CACHE_PREFIX is neither a prefix *)
(* of keyPrefix nor has keyPrefix as a prefix                              *)

OtherPrefixes == {"other:", "sh*:"}

\* does key start with prefix?
StartsWith(key, prefix) ==
    Len(key) >= Len(prefix) /\ SubSeq(key, 1, Len(prefix)) = prefix

\* the other deployment calls set(key, value) and Redis takes it
OtherSet(prefix, key, value) ==
    /\ redis' = Put(redis, prefix \o key,
                    [text |-> JSONstringify(value).v, expireAt |-> clock + defaultTTL])
    /\ cacheResp' = [NoCall EXCEPT !.op = "other set", !.key = prefix \o key]
    /\ UNCHANGED <<clock, proc, orders, memoryCache, invalidated, dataVars, wsVars>>

\* the other deployment calls invalidatePattern(pattern)
OtherInvalidatePattern(prefix, pattern) ==
    /\ redis' = Drop(redis, RedisKeys(redis, prefix \o pattern))
    /\ cacheResp' = [NoCall EXCEPT !.op = "other invalidatePattern",
                                   !.key = prefix \o pattern]
    /\ UNCHANGED <<clock, proc, orders, memoryCache, invalidated, dataVars, wsVars>>

NextTenants ==
    \/ \E k \in CacheKeys, f \in BOOLEAN : Get(k, f)
    \/ \E k \in CacheKeys, f \in BOOLEAN : \E v \in ValuesFor(k), ttl \in TTLsFor(k) :
          Set(k, v, ttl, f)
    \/ \E k \in CacheKeys, f \in BOOLEAN : Del(k, f)
    \/ \E p \in Patterns, f \in BOOLEAN : InvalidatePattern(p, f)
    \/ \E p \in OtherPrefixes : OtherSet(p, StatsKey, Str("a"))
    \/ \E p \in OtherPrefixes, pattern \in Patterns : OtherInvalidatePattern(p, pattern)

SpecTenants == Init /\ [][NextTenants]_vars

(* Shutdown: SIGTERM runs two handlers that know nothing of each other,    *)
(* the one of queue.ts (dataProcessingQueue.close()) and the one of the    *)
(* server (httpServer.close, then the disconnects and process.exit)        *)

\* SIGTERM arrives: the queue begins to close, which has its workers take
\* no further job and waits for the attempts in progress; the HTTP server
\* stops listening
Sigterm ==
    /\ ~proc.signal
    /\ proc' = [proc EXCEPT !.signal = TRUE, !.queue = "closing", !.server = "closing"]
    /\ UNCHANGED <<clock, orders, cacheVars, dataVars, wsVars>>

\* no attempt is in progress any more: dataProcessingQueue.close() resolves
QueueClosed ==
    /\ proc.queue = "closing" /\ Active = {} /\ ~proc.exited
    /\ proc' = [proc EXCEPT !.queue = "closed"]
    /\ UNCHANGED <<clock, orders, cacheVars, dataVars, wsVars>>

\* the last HTTP connection has ended: the callback of httpServer.close
\* runs and calls databaseConfig.disconnect()
HttpClosed ==
    /\ proc.server = "closing"
    /\ proc' = [proc EXCEPT !.server = "closed", !.db = FALSE]
    /\ UNCHANGED <<clock, orders, cacheVars, dataVars, wsVars>>

\* MongoDB has disconnected: the callback calls redisConfig.disconnect()
RedisDisconnect ==
    /\ proc.server = "closed" /\ proc.cache
    /\ proc' = [proc EXCEPT !.cache = FALSE]
    /\ UNCHANGED <<clock, orders, cacheVars, dataVars, wsVars>>

\* Redis has disconnected: process.exit(0)
Exit ==
    /\ proc.server = "closed" /\ ~proc.cache /\ ~proc.exited
    /\ proc' = [proc EXCEPT !.exited = TRUE]
    /\ UNCHANGED <<clock, orders, cacheVars, dataVars, wsVars>>

\* the worker in a process that may be shutting down: a closing queue
\* starts no job, a storage call on a disconnected MongoDB throws, a cache
\* call on a disconnected Redis fails, and nothing runs after the exit
Processing ==
    /\ ~proc.exited
    /\ \/ \E j \in JobIds : proc.queue = "open" /\ StartJob(j)
       \/ \E j \in JobIds, f \in BOOLEAN : (proc.db \/ f) /\ JobPersist(j, f)
       \/ \E j \in JobIds, f \in BOOLEAN : (proc.db \/ f) /\ JobStats(j, f)
       \/ \E j \in JobIds, f \in BOOLEAN : (proc.cache \/ f) /\ JobPublish(j, f)
       \/ \E j \in JobIds : proc.queue = "open" /\ RetryJob(j)

NextShutdown ==
    \/ \E ds \in Streams : ~proc.signal /\ IngestHighThroughputCall(ds)
    \/ Processing
    \/ Sigterm
    \/ QueueClosed
    \/ HttpClosed
    \/ RedisDisconnect
    \/ Exit

SpecShutdown == Init /\ [][NextShutdown]_vars

(* OrderService (order.service, in websocket.service.ts): the creations   *)
(* and the cached queries, each call as one step                           *)

OrdersListKey  == "orders:list:{}"      \* ORDERS_LIST(JSON.stringify({}))
OrderSearchKey == "orders:search:a:1"   \* ORDER_SEARCH("a", 1)
OrderStatsKey  == "orders:stats"
OrdersListTTL  == 300
OrderSearchTTL == 120
OrderStatsTTL  == 900
MaxOrderBatch  == 1000                  \* createBatchOrders takes at most this many

\* OrderService.invalidateOrderCaches: the shared tier afterwards (the three
\* calls swallow their errors)
InvalidateOrderCaches(r, cacheFail) ==
    LET r1 == CacheInvalidatePattern(r, "orders:list:*", cacheFail).redis
        r2 == CacheInvalidatePattern(r1, "order:search:*", cacheFail).redis
    IN  CacheDel(r2, OrderStatsKey, cacheFail).redis

\* the record of a call of OrderService: n is the number of orders that it
\* created, or the count that the result of a query shows
OrderCall(op, outcome, n) ==
    [NoResp EXCEPT !.op = op, !.outcome = outcome, !.n = n, !.totalBefore = orders]

\* OrderService.createOrder; dbFail says that orderRepository.create throws
CreateOrder(dbFail, cacheFail) ==
    /\ dbFail \/ orders < MaxOrders
    /\ IF dbFail
       THEN /\ resp' = OrderCall("createOrder", "throw", 0)
            /\ UNCHANGED <<orders, redis>>
       ELSE /\ orders' = orders + 1
            /\ redis' = InvalidateOrderCaches(redis, cacheFail)
            /\ resp' = OrderCall("createOrder", "return", 1)
    /\ UNCHANGED <<clock, proc, memoryCache, cacheResp, invalidated, store, jobs,
                   reader, floor, wsVars>>

\* the sizes of the batches handed to createBatchOrders
OrderBatches == {0, 2, MaxOrderBatch + 1}

\* OrderService.createBatchOrders on n orders; createBatch inserts in a
\* transaction
CreateBatchOrders(n, dbFail, cacheFail) ==
    /\ n = 0 \/ n > MaxOrderBatch \/ dbFail \/ orders + n <= MaxOrders
    /\ IF n = 0 \/ n > MaxOrderBatch \/ dbFail
       THEN /\ resp' = OrderCall("createBatchOrders", "throw", 0)
            /\ UNCHANGED <<orders, redis>>
       ELSE /\ orders' = orders + n
            /\ redis' = InvalidateOrderCaches(redis, cacheFail)
            /\ resp' = OrderCall("createBatchOrders", "return", n)
    /\ UNCHANGED <<clock, proc, memoryCache, cacheResp, invalidated, store, jobs,
                   reader, floor, wsVars>>

\* a query that goes through getMultiLevel / setMultiLevel: getOrders and
\* getOrderStats
TwoTierQuery(op, key, ttl, fail, dbFail) ==
    /\ LET got == CacheGetMultiLevel(redis, memoryCache, clock, key, fail)
       IN  IF Truthy(got.value)
           THEN /\ resp' = OrderCall(op, "return", got.value.v.total)
                /\ memoryCache' = got.memoryCache
                /\ redis' = redis
           ELSE IF dbFail
           THEN /\ resp' = OrderCall(op, "throw", 0)
                /\ memoryCache' = got.memoryCache
                /\ redis' = redis
           ELSE LET put == CacheSetMultiLevel(redis, got.memoryCache, clock, key,
                                              OrderResult(orders), ttl, fail)
                IN  /\ resp' = OrderCall(op, "return", orders)
                    /\ memoryCache' = put.memoryCache
                    /\ redis' = put.redis
    /\ UNCHANGED <<clock, proc, orders, cacheResp, invalidated, store, jobs, reader,
                   floor, wsVars>>

\* OrderService.getOrders({})
GetOrders(fail, dbFail) ==
    TwoTierQuery("getOrders", OrdersListKey, OrdersListTTL, fail, dbFail)

\* OrderService.getOrderStats
GetOrderStats(fail, dbFail) ==
    TwoTierQuery("getOrderStats", OrderStatsKey, OrderStatsTTL, fail, dbFail)

\* OrderService.searchOrders("a", {page: 1}), through get / set
SearchOrders(fail, dbFail) ==
    /\ LET cachedResult == CacheGet(redis, OrderSearchKey, fail)
       IN  IF Truthy(cachedResult)
           THEN /\ resp' = OrderCall("searchOrders", "return", cachedResult.v.total)
                /\ redis' = redis
           ELSE IF dbFail
           THEN /\ resp' = OrderCall("searchOrders", "throw", 0)
                /\ redis' = redis
           ELSE /\ resp' = OrderCall("searchOrders", "return", orders)
                /\ redis' = CacheSet(redis, clock, OrderSearchKey, OrderResult(orders),
                                     OrderSearchTTL, fail).redis
    /\ UNCHANGED <<clock, proc, orders, memoryCache, cacheResp, invalidated, store,
                   jobs, reader, floor, wsVars>>

NextOrders ==
    \/ \E dbFail \in BOOLEAN, cacheFail \in BOOLEAN : CreateOrder(dbFail, cacheFail)
    \/ \E n \in OrderBatches, dbFail \in BOOLEAN, cacheFail \in BOOLEAN :
          CreateBatchOrders(n, dbFail, cacheFail)
    \/ \E fail \in BOOLEAN, dbFail \in BOOLEAN : GetOrders(fail, dbFail)
    \/ \E fail \in BOOLEAN, dbFail \in BOOLEAN : GetOrderStats(fail, dbFail)
    \/ \E fail \in BOOLEAN, dbFail \in BOOLEAN : SearchOrders(fail, dbFail)

SpecOrders == Init /\ [][NextOrders]_vars

(* Ingestion in front of listening clients: connections that open and     *)
(* authenticate, POST /data/ingest with the one and two readings of the    *)
(* real-time tests, and a stream that goes through the queue               *)

FeedBatches == {MkBatch(n, P_temp, P_hum) : n \in {1, 2}}

NextFeed ==
    \/ \E c \in Conns : Connect(c)
    \/ \E c \in Conns, data \in Credentials : Authenticate(c, data)
    \/ \E b \in FeedBatches : PostIngest(b)
    \/ IngestHighThroughputCall(<<P_temp>>)
    \/ \E j \in JobIds : StartJob(j)
    \/ \E j \in JobIds : JobPersist(j, FALSE)
    \/ \E j \in JobIds : JobStats(j, FALSE)
    \/ \E j \in JobIds, f \in BOOLEAN : JobPublish(j, f)

SpecFeed == Init /\ [][NextFeed]_vars

(* The broadcasts of a job in front of subscribed clients: connections    *)
(* that open, authenticate and subscribe, batches of one and of two types  *)
(* handed to the queue one at a time, and attempts that fail at either     *)
(* storage call                                                            *)

\* a reading whose type is a name that every object inherits
P_ctor == [type |-> Str("constructor"), value |-> Num(21), metadata |-> Undefined]

\* a reading of each type, and two types interleaved
FanStreams ==
    {<<P_temp>>, <<P_ctor>>,
     <<[P_temp EXCEPT !.value = Num(1)], P_hum, [P_temp EXCEPT !.value = Num(2)]>>}

\* the rooms that the clients ask for
FanRooms == {"data_temperature", "data_constructor"}

NextFanout ==
    \/ \E c \in Conns : Connect(c)
    \/ \E c \in Conns : Authenticate(c, [token |-> Undefined, userId |-> Str("u")])
    \/ \E c \in Conns, room \in FanRooms : Subscribe(c, room)
    \/ \E ds \in FanStreams : jobs = <<>> /\ HighThroughputCall(ds, MaxChunks)
    \/ \E j \in JobIds : StartJob(j)
    \/ \E j \in JobIds, f \in BOOLEAN : JobPersist(j, f)
    \/ \E j \in JobIds, f \in BOOLEAN : JobStats(j, f)
    \/ \E j \in JobIds : JobPublish(j, FALSE)
    \/ \E j \in JobIds : RetryJob(j)

SpecFanout == Init /\ [][NextFanout]_vars

\* the readers next to ingestion and the worker (whose failures and retries
\* SpecQueue explores)
Next ==
    \/ \E b \in SyncBatches : IngestDataCall(b)
    \/ \E op \in ReadOps, f \in BOOLEAN : StartRead(op, f)
    \/ \E f \in BOOLEAN : ReadLookup(f)
    \/ \E f \in BOOLEAN : ReadQuery(f)
    \/ \E f \in BOOLEAN : ReadFill(f)
    \/ \E f \in BOOLEAN : ReadRespond(f)
    \/ \E ds \in SyncBatches : IngestHighThroughputCall(ds)
    \/ \E j \in JobIds : StartJob(j)
    \/ \E j \in JobIds : JobPersist(j, FALSE)
    \/ \E j \in JobIds : JobStats(j, FALSE)
    \/ \E j \in JobIds, f \in BOOLEAN : JobPublish(j, f)

Spec == Init /\ [][Next]_vars

\* the socket handlers
NextWs ==
    \/ \E c \in Conns : Connect(c)
    \/ \E c \in Conns, data \in Credentials : Authenticate(c, data)
    \/ \E c \in Conns, room \in Rooms : Subscribe(c, room)
    \/ \E c \in Conns, room \in Rooms : Unsubscribe(c, room)
    \/ \E c \in Conns, data \in Submissions : SubmitData(c, data)
    \/ \E c \in Conns : Disconnect(c)
    \/ \E room \in Rooms : BroadcastToRoom(room)
    \/ BroadcastData

SpecWs == Init /\ [][NextWs]_vars

---------------------------------------------------------------------------
(* Properties of ingestion (SpecIngest) *)

\* a call of ingestData, directly or behind POST /data/ingest, has ended
IngestEnded ==
    resp.op \in {"ingestData", "POST /data/ingest"} /\ resp.outcome # "none"

\* C1: an ingest of 1 to 10 valid points that no storage error interrupts
\* returns queued=false (HTTP 201), has stored exactly the points of the
\* batch and has enqueued no job.
C1_SyncIngestPersists ==
    (IngestEnded /\ resp.valid /\ resp.n >= 1 /\ resp.n <= SyncLimit
                 /\ resp.errName # "MongoServerError")
        => /\ resp.outcome = "return"
           /\ ~resp.queued
           /\ resp.persisted = resp.n
           /\ resp.enqueued = 0
           /\ resp.op = "POST /data/ingest" => resp.status = 201

\* C2: validateDataPoints throws for a non-empty batch exactly when one of
\* its points lacks a non-empty type, a numeric value, or has metadata that
\* is neither absent nor an object.
C2_ValidateAcceptsIffValid ==
    (resp.op = "ingestData" /\ resp.n >= 1)
        => (resp.valid <=> ~Includes(resp.error, "Invalid data point"))

\* C3: an ingest of more than 10 and at most 5000 valid points for which
\* the queue takes the job returns queued=true (HTTP 202), has enqueued one
\* job that carries the whole batch, and has stored nothing.
C3_LargeBatchEnqueuesOneJob ==
    (IngestEnded /\ resp.valid /\ resp.n > SyncLimit /\ resp.n <= HighLimit
                 /\ resp.error # "queue add failed")
        => /\ resp.outcome = "return"
           /\ resp.queued
           /\ resp.enqueued = 1
           /\ resp.persisted = 0
           /\ Len(jobs) >= 1 /\ Len(jobs[Len(jobs)].data) = resp.n
           /\ resp.op = "POST /data/ingest" => resp.status = 202

---------------------------------------------------------------------------
(* Properties of the job queue (SpecQueue) *)

\* C4: the routine of a job is invoked at most 3 times; a job is failed for
\* good only when 3 invocations have failed, so after fewer failures it is
\* retried and the invocation that succeeds completes it; a failed or
\* completed job is not invoked again.
C4_RetryPolicy ==
    \A j \in JobIds :
        /\ jobs[j].invocations <= Attempts
        /\ jobs[j].state = "failed"
              => jobs[j].attemptsMade = Attempts /\ jobs[j].invocations = Attempts
        /\ jobs[j].state = "completed"
              => /\ jobs[j].attemptsMade < Attempts
                 /\ jobs[j].invocations = jobs[j].attemptsMade + 1
        /\ jobs[j].state = "active"
              => /\ jobs[j].attemptsMade < Attempts
                 /\ jobs[j].invocations = jobs[j].attemptsMade + 1
        /\ jobs[j].state \in {"waiting", "delayed"}
              => /\ jobs[j].attemptsMade < Attempts
                 /\ jobs[j].invocations = jobs[j].attemptsMade

\* a job has completed on its third invocation, after two failures
C4_Witness ==
    \E j \in JobIds :
        /\ jobs[j].state = "completed"
        /\ jobs[j].attemptsMade = Attempts - 1
        /\ jobs[j].invocations = Attempts

---------------------------------------------------------------------------
(* Properties of the cache service (SpecCache) *)

\* C5: a get that directly follows a successful set of the same key, whose
\* own shared-tier call works, returns the value that was set, falsy values
\* included; and so does a getMultiLevel that directly follows a
\* setMultiLevel of the same key.
C5_SetThenGetReturnsValue ==
    /\ (cacheResp.op = "get" /\ cacheResp.after # <<>> /\ ~cacheResp.failed)
          => cacheResp.result = cacheResp.after[1]
    /\ (cacheResp.op = "getMultiLevel" /\ cacheResp.after # <<>>)
          => cacheResp.result = cacheResp.after[1]

\* a get has directly followed a successful set of the falsy value false
C5_Witness ==
    /\ cacheResp.op = "get" /\ ~cacheResp.failed
    /\ cacheResp.after = <<Bool(FALSE)>>

\* C6: once del(k) or a matching invalidatePattern has returned true and k was
\* not set since, get(k) and getMultiLevel(k) return absent.
C6_InvalidatedReadsAbsent ==
    (cacheResp.op \in {"get", "getMultiLevel"} /\ cacheResp.key \in invalidated)
        => cacheResp.result = Null

---------------------------------------------------------------------------
(* Properties of the readers (Spec) *)

\* C7: a statistics read (getDataStats, GET /data/stats) that starts after
\* a synchronous ingest of valid points returns a total_points that counts
\* those points, whether or not statistics were cached before.
C7_StatsReadSeesSyncIngest ==
    (reader.pc = "done" /\ reader.op \in {"getDataStats", "GET /data/stats"}
                        /\ reader.val # Null /\ reader.syncNeed > 0)
        => TotalOf(reader.val) >= reader.syncNeed

\* C8: a read of the statistics or of the realtime statistics that starts
\* after a job has completed returns statistics that count the points the
\* job persisted.
C8_ReadAfterJobIsFresh ==
    (reader.pc = "done" /\ reader.op \in {"getDataStats", "getRealtimeStats"}
                        /\ reader.val # Null)
        => TotalOf(reader.val) >= reader.jobNeed

\* C9: a read of the realtime statistics or of the history that starts
\* after a synchronous ingest of valid points and is served from the cache
\* is served a value computed from storage that held those points.
C9_NoStaleCachedRead ==
    (reader.pc = "done" /\ reader.op \in {"getRealtimeStats", "getDataHistory"}
                        /\ reader.hit /\ reader.syncNeed > 0)
        => TotalOf(reader.val) >= reader.syncNeed

---------------------------------------------------------------------------
(* Properties of the socket handlers (SpecWs) *)

\* C10: a connection that has not authenticated is in no room and in no
\* entry of roomSubscriptions; its subscribe and submit_data requests are
\* answered with the error 'Authentication required' and nothing else, and
\* its submit_data does not reach ingestData.
C10_UnauthenticatedNeverSubscribed ==
    /\ \A c \in Conns :
          ~sockets[c].authenticated
             => /\ sockets[c].rooms = {}
                /\ \A r \in DOMAIN roomSubscriptions : c \notin roomSubscriptions[r]
    /\ (wsReq.kind \in {"subscribe", "submit_data"} /\ ~wsReq.authenticated)
          => /\ emitted[wsReq.conn] = <<Event("error", "Authentication required")>>
             /\ ~wsReq.ingested

\* an unauthenticated connection has asked to subscribe while another
\* connection is subscribed
C10_Witness ==
    /\ wsReq.kind = "subscribe" /\ ~wsReq.authenticated
    /\ roomSubscriptions # Empty

\* C11: when broadcastToRoom sends an event to a room, a connected client
\* whose last served request for the room was subscribe is sent the event
\* exactly once, whatever it had asked before, and one whose last request
\* for the room was unsubscribe is not sent it.
C11_SubscribeIdempotent ==
    wsReq.kind = "broadcastToRoom"
        => \A c \in connectedClients :
              /\ lastRequest[c][wsReq.room] = "subscribe"
                    => emitted[c] = <<Event("type_data_update", wsReq.room)>>
              /\ lastRequest[c][wsReq.room] = "unsubscribe"
                    => emitted[c] = <<>>

\* a broadcast has been sent to a room of which one connection's last
\* request was subscribe and the other's was unsubscribe
C11_Witness ==
    /\ wsReq.kind = "broadcastToRoom"
    /\ \E c \in connectedClients :
          /\ lastRequest[c][wsReq.room] = "subscribe"
          /\ emitted[c] # <<>>
    /\ \E c \in connectedClients :
          /\ sockets[c].authenticated
          /\ lastRequest[c][wsReq.room] = "unsubscribe"

\* C12: for every topic, the connections that the transport has in the room
\* are the members of the topic's entry of roomSubscriptions (none when
\* there is no entry), and the connections that a broadcastToRoom reaches
\* are exactly those members.
C12_RoomsAgreeWithRegistry ==
    /\ \A room \in Rooms : RoomMembers(room) = Subscribers(room)
    /\ wsReq.kind = "broadcastToRoom"
          => {c \in Conns : emitted[c] # <<>>} = Subscribers(wsReq.room)

\* a broadcast has reached the one subscriber of a room while another
\* authenticated connection, subscribed elsewhere, was connected
C12_Witness ==
    /\ wsReq.kind = "broadcastToRoom"
    /\ \E c \in connectedClients, d \in connectedClients :
          /\ Subscribers(wsReq.room) = {c}
          /\ emitted[c] # <<>>
          /\ d # c /\ sockets[d].rooms # {} /\ emitted[d] = <<>>

\* a connection that has disconnected is in no entry of roomSubscriptions,
\* in no room, and is sent nothing
C13_Gone ==
    \A c \in Conns :
        sockets[c].state = "closed"
           => /\ c \notin connectedClients
              /\ \A r \in DOMAIN roomSubscriptions : c \notin roomSubscriptions[r]
              /\ \A r \in Rooms : c \notin RoomMembers(r)
              /\ emitted[c] = <<>>

\* the step in which connection c disconnects leaves every other
\* connection with the sockets and the subscriptions it had
C13_OthersKept ==
    \A c \in Conns :
        (sockets[c].state = "connected" /\ sockets'[c].state = "closed")
           => \A d \in Conns \ {c} :
                 /\ sockets'[d] = sockets[d]
                 /\ \A r \in Rooms : (d \in Subscribers(r))' <=> d \in Subscribers(r)

\* C13: after a connection has disconnected it is neither in
\* connectedClients nor in any subscriber set, and no later broadcast is
\* sent to it; its disconnection changes the subscriptions of no other
\* connection.
C13_DisconnectRemoves == []C13_Gone /\ [][C13_OthersKept]_vars

\* an authenticated connection has just disconnected while the other is
\* still subscribed to a room
C13_Witness ==
    /\ wsReq.kind = "disconnect" /\ wsReq.authenticated
    /\ sockets[wsReq.conn].state = "closed"
    /\ \E d \in connectedClients, r \in Rooms : d \in Subscribers(r)

\* C14: roomSubscriptions has no entry with an empty subscriber set: the
\* entry of a room goes with its last subscriber, on unsubscribe and on
\* disconnect.
C14_NoEmptyTopic ==
    \A r \in DOMAIN roomSubscriptions : roomSubscriptions[r] # {}

\* an authenticated connection has just unsubscribed from a room that is
\* left without an entry, while the entry of another room remains
C14_Witness ==
    /\ wsReq.kind = "unsubscribe" /\ wsReq.authenticated
    /\ wsReq.room \notin DOMAIN roomSubscriptions
    /\ roomSubscriptions # Empty

---------------------------------------------------------------------------
(* Properties of admission (SpecIngest) *)

\* C15: a call of an ingestion entry point (ingestData,
\* ingestHighThroughputData, POST /data/ingest) on a batch with an invalid
\* point leaves the store, the cache and the queue as they were: nothing is
\* persisted, no cache entry is invalidated, no job is enqueued.
C15_AllOrNothing ==
    [][(resp' # resp /\ resp'.n >= 1 /\ ~resp'.valid)
          => /\ store' = store
             /\ redis' = redis
             /\ jobs' = jobs
             /\ resp'.outcome # "return"]_vars

\* C16: POST /data/ingest with more than 5000 valid points is answered 202
\* with queued=true once the chunks of the batch are enqueued, and nothing
\* of it is persisted by then.
C16_HugeBatchAdmitted ==
    (resp.op = "POST /data/ingest" /\ resp.valid /\ resp.n > HighLimit)
        => /\ resp.status = 202
           /\ resp.queued
           /\ resp.enqueued = NumChunks(MkBatch(resp.n, P_temp, P_temp))
           /\ resp.persisted = 0

---------------------------------------------------------------------------
(* Properties of chunking (SpecChunks) *)

\* C17: ingestHighThroughputData on n points that returns has enqueued
\* ceil(n/1000) jobs; job i (from 0) carries the points i*1000 ..
\* min(n,(i+1)*1000)-1 in their order, so each chunk has 1 to 1000 points
\* and every point of the input is at its place in its chunk; jobs 0, 1, 2
\* have priority 2 and the later ones priority 1.
C17_Chunking ==
    (resp.op = "ingestHighThroughputData" /\ resp.outcome = "return")
        => LET n  == resp.n
               ds == Readings(n)
               k  == Len(jobs)
           IN  /\ k * 1000 >= n /\ (k - 1) * 1000 < n
               /\ resp.enqueued = k
               /\ \A i \in 0..(k - 1) :
                     LET lo   == i * 1000
                         hi   == (IF n < (i + 1) * 1000 THEN n ELSE (i + 1) * 1000) - 1
                         data == jobs[i + 1].data
                     IN  /\ Len(data) = hi - lo + 1
                         /\ Len(data) >= 1 /\ Len(data) <= 1000
                         /\ \A x \in 1..Len(data) : data[x] = ds[lo + x]
                         /\ jobs[i + 1].priority = IF i <= 2 THEN 2 ELSE 1
               /\ \A p \in 1..n :
                     jobs[((p - 1) \div 1000) + 1].data[((p - 1) % 1000) + 1] = ds[p]

\* a stream of 3001 readings has been taken: 4 chunks, the last of which is
\* the single 3001st reading, at priority 1
C17_Witness ==
    /\ resp.op = "ingestHighThroughputData" /\ resp.outcome = "return"
    /\ resp.n = 3001 /\ Len(jobs) = 4
    /\ jobs[4].data = <<[P_temp EXCEPT !.value = Num(3001)]>>
    /\ jobs[4].priority = 1 /\ jobs[3].priority = 2

\* C18: the job that a free worker takes is one with the highest priority
\* value among the waiting jobs, so the lead chunks of a stream (priority 2)
\* are started before its remaining chunks (priority 1).
C18_HigherValueFirst ==
    [][\A j \in JobIds :
          (jobs[j].state = "waiting" /\ jobs'[j].state = "active")
              => \A i \in JobIds :
                    jobs[i].state = "waiting" => jobs[i].priority <= jobs[j].priority]_vars

---------------------------------------------------------------------------
(* Properties of the worker pool (SpecPool) *)

\* the active jobs that worker w is awaiting
C19_Busy(w) == {j \in Active : jobs[j].worker = w}

\* C19: at most Concurrency (5) jobs are active, and each of them is with
\* a worker of its own: a worker that has taken a job takes no other until
\* the attempt has returned or thrown.
C19_BoundedConcurrency ==
    /\ Cardinality(Active) <= Concurrency
    /\ \A j \in Active : jobs[j].worker \in Workers
    /\ \A w \in Workers : Cardinality(C19_Busy(w)) <= 1

\* every worker is busy and a job is waiting
C19_Witness ==
    /\ Cardinality(Active) = Concurrency
    /\ \A w \in Workers : Cardinality(C19_Busy(w)) = 1
    /\ \E j \in JobIds : jobs[j].state = "waiting"

---------------------------------------------------------------------------
(* Progress of the queue (SpecQueueFair) *)

\* job j has been admitted
C20_Admitted(j) == j \in JobIds

\* job j has ended, completed or failed for good
C20_Ended(j) == j \in JobIds /\ jobs[j].state \in {"completed", "failed"}

\* the queue has emitted, last, the event of the way job j ended
C20_Told(j) ==
    /\ jobs[j].state = "failed" => jobs[j].notified = "failed"
    /\ jobs[j].state = "completed" => jobs[j].notified = "completed"

\* C20: every job, once admitted, is from some moment on ended, completed
\* or failed for good (so it eventually leaves the waiting state and stays
\* out of it), and a job that has ended failed has had the queue emit
\* 'failed' (a completed one 'completed'): no job ends without an event.
C20_EveryJobEnds ==
    /\ \A j \in 1..MaxJobs : <>[](C20_Admitted(j) => C20_Ended(j))
    /\ [](\A j \in JobIds : C20_Told(j))

\* a job has failed for good, after 3 invocations, and 'failed' is the
\* last event the queue emitted for it
C20_Witness ==
    \E j \in JobIds :
        /\ jobs[j].state = "failed" /\ jobs[j].invocations = Attempts
        /\ jobs[j].notified = "failed"

---------------------------------------------------------------------------
(* Properties of the queued path of ingestData (SpecIngest) *)

\* C21: ingestData on a valid batch of more than 10 points that the queue
\* takes returns queued=true with the job added and not yet started, and no
\* later step of a job (an attempt that fails, a retry, the final failure)
\* changes the response that the caller was given.
C21_ResponseOnAdmission ==
    [][/\ (/\ resp' # resp /\ resp'.op = "ingestData"
           /\ resp'.valid /\ resp'.n > SyncLimit
           /\ resp'.error # "queue add failed")
          => /\ resp'.outcome = "return" /\ resp'.queued
             /\ Len(jobs') = Len(jobs) + 1
             /\ jobs'[Len(jobs')].state = "waiting"
             /\ jobs'[Len(jobs')].invocations = 0
       /\ (Len(jobs') = Len(jobs) /\ jobs' # jobs) => resp' = resp]_vars

\* C22: the batch_id that ingestData returns for a valid batch of more than
\* 10 points that the queue takes is the batch_id of the job that carries
\* the batch, and every data_processed broadcast bears the batch_id of a
\* job.
C22_BatchIdCorrelates ==
    /\ (/\ resp.op = "ingestData" /\ resp.valid /\ resp.n > SyncLimit
        /\ resp.error # "queue add failed")
          => /\ resp.queued
             /\ \E j \in JobIds :
                   /\ jobs[j].batch_id = resp.batch_id
                   /\ Len(jobs[j].data) = resp.n
    /\ \A c \in Conns : \A n \in DOMAIN emitted[c] :
          emitted[c][n].detail = "data_processed"
              => \E j \in JobIds : jobs[j].batch_id = emitted[c][n].batch_id

\* r is the response of an ingestData call on a non-empty valid batch that
\* neither the storage nor the queue has failed
C23_Served(r) ==
    /\ r.op = "ingestData" /\ r.valid /\ r.n >= 1
    /\ r.error \notin {"insertMany failed", "queue add failed"}

\* C23: of two ingestData calls in a row, on valid batches of up to 10
\* points or of more, each returns a batch_id and the two differ, also
\* when no time passes between the calls.
C23_DistinctBatchIds ==
    [][(resp' # resp /\ C23_Served(resp) /\ C23_Served(resp'))
          => /\ resp.outcome = "return" /\ resp'.outcome = "return"
             /\ resp'.batch_id # resp.batch_id]_vars

---------------------------------------------------------------------------
(* Properties of the two cache tiers (SpecCache) *)

\* a getMultiLevel call has just been served
C24_Read(k) == cacheResp'.op = "getMultiLevel" /\ cacheResp'.key = k

\* C24: a getMultiLevel(k) that finds no unexpired in-process entry while
\* the shared tier holds k, and whose shared-tier call does not fail,
\* returns the stored value, whatever it is, and leaves it in the
\* in-process tier with an expiry 60 seconds ahead; a getMultiLevel(k) that
\* finds an unexpired in-process entry returns its value without a
\* shared-tier call and leaves both tiers alone.
C24_ReadThrough ==
    [][\A k \in CacheKeys :
          /\ (/\ C24_Read(k) /\ ~MemoryFresh(memoryCache, clock, k)
              /\ getKey(k) \in DOMAIN redis /\ ~cacheResp'.failed)
                => /\ cacheResp'.result = JSONparse(redis[getKey(k)].text)
                   /\ k \in DOMAIN memoryCache'
                   /\ memoryCache'[k] = [data |-> cacheResp'.result,
                                         expiry |-> clock + 60]
          /\ (C24_Read(k) /\ MemoryFresh(memoryCache, clock, k))
                => /\ cacheResp'.result = memoryCache[k].data
                   /\ ~cacheResp'.failed
                   /\ memoryCache' = memoryCache]_vars

\* the in-process entry of k is put or replaced in this step
C25_Put(k) ==
    /\ k \in DOMAIN memoryCache'
    /\ k \in DOMAIN memoryCache => memoryCache'[k] # memoryCache[k]

\* C25: an entry enters the in-process tier only with a value that the
\* shared tier holds under the same key once the call is over, read from it
\* or successfully written to it; in particular a setMultiLevel whose
\* shared-tier write fails puts no entry.
C25_ShadowOfShared ==
    [][\A k \in CacheKeys :
          C25_Put(k)
              => /\ getKey(k) \in DOMAIN redis'
                 /\ JSONparse(redis'[getKey(k)].text) = memoryCache'[k].data
                 /\ cacheResp'.op = "setMultiLevel" => cacheResp'.result = Bool(TRUE)]_vars

---------------------------------------------------------------------------
(* Properties of the shared tier failing (SpecFaults) *)

\* C26: a call of get whose Redis call throws returns null, and a call of
\* set, del or invalidatePattern whose Redis call throws returns false; a
\* job whose storage calls succeed has no failed attempt, whatever the
\* cache does, and an ingestData call throws for no other reason than its
\* batch or the storage.
C26_CacheErrorsContained ==
    /\ cacheResp.failed
          => /\ cacheResp.op = "get" => cacheResp.result = Null
             /\ cacheResp.op \in {"set", "del", "invalidatePattern"}
                   => cacheResp.result = Bool(FALSE)
    /\ \A j \in JobIds :
          jobs[j].attemptsMade = 0 /\ jobs[j].state \notin {"delayed", "failed"}
    /\ (resp.op = "ingestData" /\ resp.outcome = "throw")
          => \/ resp.error = "No data points provided"
             \/ Includes(resp.error, "Invalid data point")
             \/ resp.error = "insertMany failed"

\* a job has completed although its cacheService.set failed
C26_Witness ==
    /\ cacheResp.op = "set" /\ cacheResp.key = JobRealtimeKey
    /\ cacheResp.failed /\ cacheResp.result = Bool(FALSE)
    /\ \E j \in JobIds : jobs[j].state = "completed"

---------------------------------------------------------------------------
(* Properties of key namespacing (SpecTenants) *)

\* the entries of the shared tier under keyPrefix (ours), or the others
\* (~ours), are the same before and after the step
C27_Kept(ours) ==
    \A k \in DOMAIN redis \cup DOMAIN redis' :
        (StartsWith(k, keyPrefix) <=> ours)
            => /\ k \in DOMAIN redis /\ k \in DOMAIN redis'
               /\ redis'[k] = redis[k]

\* C27: a call of this deployment leaves every entry whose key lacks
\* keyPrefix as it was, and what its get returns is the entry under
\* keyPrefix + key; a call of a deployment with another prefix, neither
\* prefix being a prefix of the other, leaves every entry under keyPrefix
\* as it was, also when the call is invalidatePattern('*').
C27_Namespaced ==
    [][/\ cacheResp'.op \in {"get", "set", "del", "invalidatePattern"}
             => C27_Kept(FALSE)
       /\ (cacheResp'.op = "get" /\ cacheResp'.result # Null)
             => /\ getKey(cacheResp'.key) \in DOMAIN redis
                /\ cacheResp'.result = JSONparse(redis[getKey(cacheResp'.key)].text)
       /\ cacheResp'.op \in {"other set", "other invalidatePattern"}
             => C27_Kept(TRUE)]_vars

---------------------------------------------------------------------------
(* Properties of the global broadcast (SpecWs) *)

\* C28: right after broadcastData every connection that is connected,
\* authenticated or not, has been sent the data_update event once, and no
\* connection that has disconnected, or never connected, has been sent
\* anything.
C28_GlobalBroadcast ==
    wsReq.kind = "broadcastData"
        => \A c \in Conns :
              /\ sockets[c].state = "connected"
                    => Len(emitted[c]) = 1 /\ emitted[c][1].event = "data_update"
              /\ sockets[c].state # "connected" => emitted[c] = <<>>

\* a broadcast that reached a connection that has not authenticated while
\* another connection had already disconnected
C28_Witness ==
    /\ wsReq.kind = "broadcastData"
    /\ \E c \in Conns :
          /\ sockets[c].state = "connected" /\ ~sockets[c].authenticated
          /\ emitted[c] # <<>>
    /\ \E d \in Conns : sockets[d].state = "closed" /\ emitted[d] = <<>>

---------------------------------------------------------------------------
(* Properties of shutdown (SpecShutdown) *)

\* C29: once SIGTERM has arrived no worker takes a job, and no attempt is
\* in progress when the connection to MongoDB or to Redis is closed or
\* the process has exited: the attempts in flight have returned or thrown
\* before.
C29_GracefulDrain ==
    /\ []((~proc.db \/ ~proc.cache \/ proc.exited) => Active = {})
    /\ [][proc.signal
             => \A j \in JobIds :
                   jobs[j].state # "active" => jobs'[j].state # "active"]_vars

---------------------------------------------------------------------------
(* Properties of ingestion in front of listening clients (SpecFeed) *)

\* the clients that listen: connected and authenticated
C31_Listening == {c \in Conns : sockets[c].state = "connected" /\ sockets[c].authenticated}

\* C31: every ingest is announced to every connected authenticated client
\* by a data_update: a batch of 1 or 2 valid points that no storage error
\* interrupts by the time that the call that writes it inline ends (the
\* call awaits all that it starts), a queued batch by the attempt that
\* completes its job (C20: every admitted job completes or fails for good).
C31_EveryIngestAnnounced ==
    [][/\ (/\ resp' # resp /\ resp'.op = "POST /data/ingest"
           /\ resp'.valid /\ resp'.n >= 1 /\ resp'.n <= 2
           /\ resp'.errName # "MongoServerError")
          => \A c \in C31_Listening :
                \E i \in DOMAIN emitted'[c] : emitted'[c][i].event = "data_update"
       /\ \A j \in JobIds :
            (jobs[j].state # "completed" /\ jobs'[j].state = "completed")
               => \A c \in C31_Listening :
                     \E i \in DOMAIN emitted'[c] :
                        /\ emitted'[c][i].event = "data_update"
                        /\ emitted'[c][i].batch_id = jobs[j].batch_id]_vars

---------------------------------------------------------------------------
(* Properties of the HTTP face of ingestion (SpecIngest) *)

\* C32: when ingestData rejects the batch of a POST /data/ingest request,
\* for being empty or for a malformed point, the response has a 4xx
\* status, never a 5xx one.
C32_RejectionIs4xx ==
    (/\ resp.op = "POST /data/ingest" /\ resp.outcome = "throw"
     /\ \/ resp.error = "No data points provided"
        \/ Includes(resp.error, "Invalid data point"))
        => resp.status >= 400 /\ resp.status < 500

---------------------------------------------------------------------------
(* Properties of the socket handlers under unauthenticated clients (SpecWs) *)

---------------------------------------------------------------------------
(* Properties of the priority of queued batches (SpecIngest) *)

\* C34: the job that ingestData enqueues for a valid batch of more than 10
\* and at most 5000 points has the default priority 0, not the 1 or 2 of
\* the chunks of a large batch.
C34_QueuedAtDefaultPriority ==
    (/\ resp.op = "ingestData" /\ resp.valid
     /\ resp.n > SyncLimit /\ resp.n <= HighLimit
     /\ resp.error # "queue add failed")
        => /\ resp.enqueued = 1
           /\ Len(jobs) >= 1
           /\ jobs[Len(jobs)].priority = DefaultPriority

---------------------------------------------------------------------------
(* Properties of the attempts of a job (SpecQueue) *)

\* the places of the queue's points: job j, position k
C35_Places == UNION {{<<j, k>> : k \in DOMAIN jobs[j].data} : j \in JobIds}

\* C35: the collection holds at most one document for each point of a job,
\* however many attempts the job has made: an attempt that follows one
\* which failed after its insert does not insert the points again.
C35_PersistedAtMostOnce ==
    \A d \in {store[i] : i \in DOMAIN store} :
        Cardinality({i \in DOMAIN store : store[i] = d})
            <= Cardinality({pl \in C35_Places : ToDoc(jobs[pl[1]].data[pl[2]]) = d})

---------------------------------------------------------------------------
(* Properties of the broadcasts of a job (SpecFanout) *)

\* the current attempt of job j has inserted the points of the job, which
\* are in the collection, and has computed the statistics
C36_Prepared(j) ==
    LET n == Len(jobs[j].data)
        e == jobs[j].persistLen
    IN  /\ jobs[j].state = "active"
        /\ e >= n /\ e <= Len(store)
        /\ \A k \in 1..n : store[e - n + k] = ToDoc(jobs[j].data[k])
        /\ jobs[j].stats # Null

\* C36: a step of a job that sends anything to a client is taken by an
\* attempt that has persisted the points of the batch and recomputed the
\* statistics before; the step in which an attempt fails at the insert or
\* at the statistics sends nothing.
C36_BroadcastAfterPersist ==
    [][/\ (jobs' # jobs /\ emitted' # emitted)
          => \E j \in JobIds : C36_Prepared(j) /\ jobs'[j] # jobs[j]
       /\ \A j \in JobIds :
            (/\ jobs'[j].attemptsMade > jobs[j].attemptsMade
             /\ jobs[j].pc \in {"persist", "stats"})
               => emitted' = emitted]_vars

\* a second attempt has sent the data_processed event and a room event to
\* a subscriber, after a first attempt that failed
C36_Witness ==
    \E j \in JobIds, c \in Conns :
        /\ jobs[j].state = "completed" /\ jobs[j].invocations = 2
        /\ Len(emitted[c]) = 2
        /\ emitted[c][1].batch_id = jobs[j].batch_id
        /\ emitted[c][2].event = "type_data_update"

\* the points of data that have type t, in the order of data
C37_PointsOf(data, t) == SelectSeq(data, LAMBDA p : p.type.v = t)

\* C37: a client that is sent the data_processed event of a batch is sent
\* with it, for every type t of the batch whose room data_<t> it is in,
\* exactly one type_data_update, which carries the points of type t of the
\* batch in their order, and no other room event.
C37_OneEventPerType ==
    \A c \in Conns, j \in JobIds :
        (/\ emitted[c] # <<>>
         /\ emitted[c][1].event = "data_update"
         /\ emitted[c][1].batch_id = jobs[j].batch_id)
           => LET evs   == SubSeq(emitted[c], 2, Len(emitted[c]))
                  types == {jobs[j].data[k].type.v : k \in DOMAIN jobs[j].data}
              IN  /\ \A t \in types :
                        ("data_" \o t) \in sockets[c].rooms
                           => Cardinality({i \in DOMAIN evs : evs[i].detail = t}) = 1
                  /\ \A i \in DOMAIN evs :
                        /\ evs[i].event = "type_data_update"
                        /\ evs[i].detail \in types
                        /\ ("data_" \o evs[i].detail) \in sockets[c].rooms
                        /\ evs[i].data = C37_PointsOf(jobs[j].data, evs[i].detail)

---------------------------------------------------------------------------
(* Properties of the admission of chunks (SpecChunks) *)

\* C38: when ingestHighThroughputData throws because the queue refused a
\* chunk, the queue has taken no chunk of the stream, and so no worker
\* processes one.
C38_ChunksAllOrNone ==
    (resp.op = "ingestHighThroughputData" /\ resp.outcome = "throw")
        => /\ resp.enqueued = 0
           /\ \A j \in JobIds : jobs[j].state = "waiting" /\ jobs[j].invocations = 0
           /\ jobs = <<>>

---------------------------------------------------------------------------
(* Properties of the subscriber sets (SpecWs) *)

\* C39: every member of every entry of roomSubscriptions is a key of
\* connectedClients and has authenticated.
C39_SubscribersAreLive ==
    \A room \in DOMAIN roomSubscriptions :
        \A c \in roomSubscriptions[room] :
            c \in connectedClients /\ sockets[c].authenticated

\* a connection that had authenticated has disconnected while another
\* connection is subscribed to a room
C39_Witness ==
    /\ wsReq.kind = "disconnect"
    /\ sockets[wsReq.conn].authenticated
    /\ \E room \in DOMAIN roomSubscriptions : roomSubscriptions[room] # {}

---------------------------------------------------------------------------
(* Properties of the order caches (SpecOrders) *)

\* the keys of the shared tier that hold order lists, search results and
\* the order statistics
C40_OrderKeys ==
    {k \in DOMAIN redis :
        \/ GlobMatch(getKey("orders:list:*"), k)
        \/ GlobMatch(getKey("orders:search:*"), k)
        \/ k = getKey("orders:stats")}

\* C40: once createOrder or createBatchOrders has returned, the shared tier
\* holds no order list, no search result and no order statistics, and what
\* getOrders, searchOrders and getOrderStats return shows the orders that
\* the collection holds, never a result cached before a creation.
C40_NoStaleOrders ==
    /\ (resp.op \in {"createOrder", "createBatchOrders"} /\ resp.outcome = "return")
          => C40_OrderKeys = {}
    /\ (resp.op \in {"getOrders", "searchOrders", "getOrderStats"}
          /\ resp.outcome = "return")
          => resp.n = orders

====
